---- MODULE Spec2Model ----
(***************************************************************************)
(* A model of the BEEFY light-client demo: the chain snapshot generator    *)
(* (create_random_child_block), the commitment scheme                      *)
(* (generate_signed_commitment / verify_signed_commitment), the Merkle     *)
(* mountain range the snapshots carry, and the verifier (EthereumActor)    *)
(* with its two operations ingest_new_header and verify_claim.             *)
(*                                                                         *)
(* Cryptography is idealised: a digest is the tagged preimage (so two      *)
(* digests are equal exactly when their preimages are), a signature is the *)
(* pair (signer, message), and a trie proof is the rest of the trie.       *)
(***************************************************************************)
EXTENDS Integers, Sequences, FiniteSets, TLC

(***************************************************************************)
(* Bounds of the model.                                                    *)
(***************************************************************************)
\* Longest chain the generator builds (genesis included).
MaxBlocks == 3
\* Largest validator set id a commitment may name.
MaxSetId == 2

(***************************************************************************)
(* Option<T>: None is the empty sequence, Some(x) the one-element one.     *)
(***************************************************************************)
None == <<>>
Some(x) == <<x>>
IsNone(o) == Len(o) = 0
IsSome(o) == Len(o) = 1
Unwrap(o) == o[1]

(***************************************************************************)
(* Hashing and encoding.                                                   *)
(***************************************************************************)
\* H256::default(): the all-zero digest.
DefaultHash == [zero |-> 0]
\* SCALE encoding: injective, and distinct from the value it encodes.
Encode(x) == [scale |-> x]
Decode(e) == e.scale
\* BlakeTwo256::hash over a byte string.
BlakeTwo256(bytes) == [blake2_256 |-> bytes]
\* Header::hash(): the hash of the encoded header.
HeaderHash(header) == BlakeTwo256(Encode(header))
\* A leaf digest that leaves the para root out.
LeafHashWithoutRoot(leaf) ==
    BlakeTwo256([le_number |-> leaf[1], hash_bytes |-> leaf[2], root_bytes |-> DefaultHash])
\* <LeafData as Hashable>::hash: number, relay hash and para root, appended.
LeafHash(leaf) ==
    BlakeTwo256([le_number |-> leaf[1], hash_bytes |-> leaf[2], root_bytes |-> leaf[3]])

(***************************************************************************)
(* MMRNode<Leaf>: Data(leaf) or Hash(digest).                              *)
(***************************************************************************)
MMRData(leaf) == [tag |-> "Data", leaf |-> leaf]
MMRHash(h) == [tag |-> "Hash", digest |-> h]
NodeHash(node) == IF node.tag = "Data" THEN LeafHash(node.leaf) ELSE node.digest
\* A merge that forgets its right operand.
MergeLeftOnly(left, right) ==
    MMRHash(BlakeTwo256([combined_left |-> NodeHash(left), combined_right |-> NodeHash(left)]))
\* MergeStrategy::merge: H(left.hash() ++ right.hash()), always a Hash node.
Merge(left, right) ==
    MMRHash(BlakeTwo256([combined_left |-> NodeHash(left), combined_right |-> NodeHash(right)]))

(***************************************************************************)
(* Position arithmetic of the mountain range (mmr_lib helpers).            *)
(***************************************************************************)
RECURSIVE Pow2(_)
Pow2(k) == IF k = 0 THEN 1 ELSE 2 * Pow2(k - 1)

RECURSIVE BitLength(_)
BitLength(n) == IF n = 0 THEN 0 ELSE 1 + BitLength(n \div 2)

RECURSIVE CountOnes(_)
CountOnes(n) == IF n = 0 THEN 0 ELSE (n % 2) + CountOnes(n \div 2)

RECURSIVE TrailingZeros(_)
TrailingZeros(n) == IF n % 2 = 1 THEN 0 ELSE 1 + TrailingZeros(n \div 2)

AllOnes(n) == n # 0 /\ CountOnes(n) = BitLength(n)

RECURSIVE JumpToAllOnes(_)
JumpToAllOnes(p) ==
    IF AllOnes(p) THEN p ELSE JumpToAllOnes(p - (Pow2(BitLength(p) - 1) - 1))

PosHeightInTree(pos) == BitLength(JumpToAllOnes(pos + 1)) - 1
ParentOffset(height) == 2 * Pow2(height)
SiblingOffset(height) == 2 * Pow2(height) - 1

LeafIndexToMmrSize(index) == 2 * (index + 1) - CountOnes(index + 1)
\* A leaf index taken for a position.
LeafIndexAsPos(index) == index
LeafIndexToPos(index) == LeafIndexToMmrSize(index) - TrailingZeros(index + 1) - 1

\* The size taken at the leaf count as if it were a leaf index.
mmr_size_of_leaf_index(leaves) == LeafIndexToMmrSize(leaves)
\* utils.rs: the size of an accumulator of `leaves` leaves.
mmr_size_from_number_of_leaves(leaves) ==
    IF leaves = 0 THEN 0 ELSE LeafIndexToMmrSize(leaves - 1)

GetPeakPosByHeight(height) == Pow2(height + 1) - 2

RECURSIVE LeftPeakFrom(_, _, _)
LeftPeakFrom(height, prev_pos, mmr_size) ==
    IF GetPeakPosByHeight(height) < mmr_size
    THEN LeftPeakFrom(height + 1, GetPeakPosByHeight(height), mmr_size)
    ELSE <<height - 1, prev_pos>>
LeftPeakHeightPos(mmr_size) == LeftPeakFrom(1, 0, mmr_size)

RECURSIVE DescendToPeak(_, _, _)
DescendToPeak(height, pos, mmr_size) ==
    IF pos > mmr_size - 1
    THEN IF height = 0 THEN None
         ELSE DescendToPeak(height - 1, pos - ParentOffset(height - 1), mmr_size)
    ELSE Some(<<height, pos>>)
GetRightPeak(height, pos, mmr_size) ==
    DescendToPeak(height, pos + SiblingOffset(height), mmr_size)

RECURSIVE PeaksFrom(_, _, _)
PeaksFrom(height, pos, mmr_size) ==
    IF height > 0 /\ IsSome(GetRightPeak(height, pos, mmr_size))
    THEN LET peak == Unwrap(GetRightPeak(height, pos, mmr_size))
         IN  <<peak[2]>> \o PeaksFrom(peak[1], peak[2], mmr_size)
    ELSE <<>>
GetPeaks(mmr_size) ==
    LET left == LeftPeakHeightPos(mmr_size)
    IN  <<left[2]>> \o PeaksFrom(left[1], left[2], mmr_size)

(***************************************************************************)
(* The accumulator store and the MemMMR operations.  A MemStore maps a     *)
(* position to a node; positions are filled from 0 without gaps, so the    *)
(* store is the sequence of its nodes and position p is entry p + 1.       *)
(***************************************************************************)
EmptyStore == <<>>
HasElem(store, pos) == pos >= 0 /\ pos < Len(store)
GetElem(store, pos) == store[pos + 1]
\* MemStore::append(pos, elems): entry pos + i becomes elems[i].
StoreAppend(store, pos, elems) ==
    [p \in 1..(IF pos + Len(elems) > Len(store) THEN pos + Len(elems) ELSE Len(store)) |->
        IF p - 1 >= pos /\ p - 1 < pos + Len(elems) THEN elems[p - pos] ELSE store[p]]

\* MMR::find_elem: a node of this batch, or one of the store.
FindElem(store, mmr_size, pos, elems) ==
    IF pos >= mmr_size THEN elems[pos - mmr_size + 1] ELSE GetElem(store, pos)

RECURSIVE PushMerge(_, _, _, _, _)
PushMerge(store, mmr_size, pos, height, elems) ==
    IF PosHeightInTree(pos + 1) > height
    THEN LET left_pos == (pos + 1) - ParentOffset(height)
             right_pos == left_pos + SiblingOffset(height)
             parent_elem == Merge(FindElem(store, mmr_size, left_pos, elems),
                                  FindElem(store, mmr_size, right_pos, elems))
         IN  PushMerge(store, mmr_size, pos + 1, height + 1, Append(elems, parent_elem))
    ELSE elems

\* A push that appends the leaf twice.
MmrPushTwice(store, mmr_size, elem) ==
    LET first == PushMerge(store, mmr_size, mmr_size, 0, <<elem>>)
        once == StoreAppend(store, mmr_size, first)
        again == PushMerge(once, mmr_size + Len(first), mmr_size + Len(first), 0, <<elem>>)
    IN  [store |-> StoreAppend(once, mmr_size + Len(first), again),
         mmr_size |-> mmr_size + Len(first) + Len(again)]

\* A push that also rewrites the nodes the store held as Hash nodes.
MmrPushRehashing(store, mmr_size, elem) ==
    LET elems == PushMerge(store, mmr_size, mmr_size, 0, <<elem>>)
        appended == StoreAppend(store, mmr_size, elems)
    IN  [store |-> [p \in 1..Len(appended) |->
                       IF p <= mmr_size THEN MMRHash(NodeHash(appended[p])) ELSE appended[p]],
         mmr_size |-> mmr_size + Len(elems)]

\* MemMMR::push: the leaf and every parent it completes are appended at
\* position mmr_size; the result is the new store and the new size.
MmrPush(store, mmr_size, elem) ==
    LET elems == PushMerge(store, mmr_size, mmr_size, 0, <<elem>>)
    IN  [store |-> StoreAppend(store, mmr_size, elems), mmr_size |-> mmr_size + Len(elems)]

\* bag_rhs_peaks / bagging_peaks_hashes: fold from the right, merge(right, left).
RECURSIVE BagPeaks(_)
BagPeaks(peaks) ==
    IF Len(peaks) > 1
    THEN LET n == Len(peaks)
         IN  BagPeaks(Append(SubSeq(peaks, 1, n - 2), Merge(peaks[n], peaks[n - 1])))
    ELSE peaks

\* A Result<T, mmr_lib::Error>.
Ok(v) == [ok |-> TRUE, value |-> v]
Err(e) == [ok |-> FALSE, error |-> e]

\* MemMMR::get_root.
MmrGetRoot(store, mmr_size) ==
    IF mmr_size = 0 THEN Err("GetRootOnEmpty")
    ELSE IF mmr_size = 1
         THEN IF HasElem(store, 0) THEN Ok(GetElem(store, 0)) ELSE Err("InconsistentStore")
    ELSE LET peaks == GetPeaks(mmr_size)
         IN  IF \E i \in 1..Len(peaks) : ~HasElem(store, peaks[i])
             THEN Err("InconsistentStore")
             ELSE Ok(BagPeaks([i \in 1..Len(peaks) |-> GetElem(store, peaks[i])])[1])

\* The sibling and the parent of the node at `pos`, taken to be at `height`.
Family(pos, height) ==
    IF PosHeightInTree(pos + 1) > height
    THEN [right |-> TRUE, sib_pos |-> pos - SiblingOffset(height), parent_pos |-> pos + 1]
    ELSE [right |-> FALSE, sib_pos |-> pos + SiblingOffset(height),
          parent_pos |-> pos + ParentOffset(height)]

\* gen_proof_for_peak for one position below the peak: the siblings on the
\* way up.
RECURSIVE GenProofPath(_, _, _, _)
GenProofPath(store, pos, height, peak_pos) ==
    IF pos = peak_pos THEN Ok(<<>>)
    ELSE LET f == Family(pos, height)
         IN  IF ~HasElem(store, f.sib_pos) THEN Err("InconsistentStore")
             ELSE IF f.parent_pos < peak_pos
                  THEN LET rest == GenProofPath(store, f.parent_pos, height + 1, peak_pos)
                       IN  IF rest.ok THEN Ok(<<GetElem(store, f.sib_pos)>> \o rest.value)
                           ELSE rest
                  ELSE Ok(<<GetElem(store, f.sib_pos)>>)

\* MMR::gen_proof for the one position `pos`: per peak from the left, the
\* path of the peak holding `pos` or the peak itself; the peaks to the right
\* of it are bagged into one item.
RECURSIVE GenProofPeaks(_, _, _, _, _, _)
GenProofPeaks(store, peaks, i, pending, proof, bagging_track) ==
    IF i > Len(peaks)
    THEN IF pending # <<>> THEN Err("GenProofForInvalidLeaves")
         ELSE IF bagging_track > 1
              THEN LET keep == Len(proof) - bagging_track
                   IN  Ok(SubSeq(proof, 1, keep)
                          \o BagPeaks(SubSeq(proof, keep + 1, Len(proof))))
              ELSE Ok(proof)
    ELSE LET peak_pos == peaks[i]
             mine == pending # <<>> /\ pending[1] <= peak_pos
         IN  IF mine
             THEN IF pending[1] = peak_pos
                  THEN GenProofPeaks(store, peaks, i + 1, <<>>, proof, 0)
                  ELSE LET path == GenProofPath(store, pending[1], 0, peak_pos)
                       IN  IF path.ok
                           THEN GenProofPeaks(store, peaks, i + 1, <<>>, proof \o path.value, 0)
                           ELSE path
             ELSE IF ~HasElem(store, peak_pos) THEN Err("InconsistentStore")
                  ELSE GenProofPeaks(store, peaks, i + 1, pending,
                                     Append(proof, GetElem(store, peak_pos)), bagging_track + 1)

MmrGenProof(store, mmr_size, pos) ==
    IF mmr_size = 1 /\ pos = 0 THEN Ok(<<>>)
    ELSE GenProofPeaks(store, GetPeaks(mmr_size), 1, <<pos>>, <<>>, 0)

\* calculate_peak_root for one leaf: climb from (pos, item) to the peak,
\* taking one proof item per level.  The result names the root reached and
\* the proof items left.
RECURSIVE CalculatePeakRoot(_, _, _, _, _)
CalculatePeakRoot(pos, item, height, peak_pos, proof) ==
    IF pos = peak_pos THEN Ok([root |-> item, rest |-> proof])
    ELSE IF proof = <<>> THEN Err("CorruptedProof")
    ELSE LET f == Family(pos, height)
             parent_item == IF f.right THEN Merge(proof[1], item) ELSE Merge(item, proof[1])
         IN  IF f.parent_pos < peak_pos
             THEN CalculatePeakRoot(f.parent_pos, parent_item, height + 1, peak_pos, Tail(proof))
             ELSE Ok([root |-> parent_item, rest |-> Tail(proof)])

\* calculate_peaks_hashes for one claimed leaf: `pending` is <<>> once the
\* leaf has been used, else <<pos, item>>.
RECURSIVE CalculatePeaksHashes(_, _, _, _, _)
CalculatePeaksHashes(peaks, i, pending, proof, peaks_hashes) ==
    LET finish(left, items, hashes) ==
            IF left # <<>> THEN Err("CorruptedProof")
            ELSE IF Len(items) > 1 THEN Err("CorruptedProof")
            ELSE Ok(hashes \o items)
    IN  IF i > Len(peaks) THEN finish(pending, proof, peaks_hashes)
        ELSE LET peak_pos == peaks[i]
                 mine == pending # <<>> /\ pending[1] <= peak_pos
             IN  IF mine /\ pending[1] = peak_pos
                 THEN CalculatePeaksHashes(peaks, i + 1, <<>>, proof,
                                           Append(peaks_hashes, pending[2]))
                 ELSE IF ~mine
                 THEN IF proof # <<>>
                      THEN CalculatePeaksHashes(peaks, i + 1, pending, Tail(proof),
                                                Append(peaks_hashes, proof[1]))
                      ELSE finish(pending, proof, peaks_hashes)
                 ELSE LET r == CalculatePeakRoot(pending[1], pending[2], 0, peak_pos, proof)
                      IN  IF r.ok
                          THEN CalculatePeaksHashes(peaks, i + 1, <<>>, r.value.rest,
                                                    Append(peaks_hashes, r.value.root))
                          ELSE r

\* MerkleProof::calculate_root for one (pos, item) pair.
CalculateRoot(mmr_size, proof, pos, item) ==
    LET hashes == IF mmr_size = 1 /\ pos = 0 THEN Ok(<<item>>)
                  ELSE CalculatePeaksHashes(GetPeaks(mmr_size), 1, <<pos, item>>, proof, <<>>)
    IN  IF ~hashes.ok THEN hashes
        ELSE IF hashes.value = <<>> THEN Err("CorruptedProof")
        ELSE Ok(BagPeaks(hashes.value)[1])

\* A verify that compares the digests of the roots.
MerkleProofVerifyByDigest(mmr_size, proof, root, pos, item) ==
    LET calculated == CalculateRoot(mmr_size, proof, pos, item)
    IN  IF calculated.ok THEN Ok(NodeHash(calculated.value) = NodeHash(root)) ELSE calculated
\* MerkleProof::verify: Ok(calculated root = root), or the calculation's error.
MerkleProofVerify(mmr_size, proof, root, pos, item) ==
    LET calculated == CalculateRoot(mmr_size, proof, pos, item)
    IN  IF calculated.ok THEN Ok(calculated.value = root) ELSE calculated

(***************************************************************************)
(* The trie primitives (sp_trie), idealised: a trie is the set of its      *)
(* entries, its root the digest of that set, and the proof of a key is the *)
(* trie without the key's entry, from which the verifier rebuilds the root *)
(* around the claimed entry.                                               *)
(***************************************************************************)
EmptyTrie == {}
TrieInsert(trie, key, value) ==
    {e \in trie : e.key # key} \cup {[key |-> key, value |-> value]}
RECURSIVE TrieInsertAll(_, _)
TrieInsertAll(trie, items) ==
    IF items = <<>> THEN trie
    ELSE TrieInsertAll(TrieInsert(trie, items[1][1], items[1][2]), Tail(items))
TrieRoot(trie) == [keccak_trie_root |-> trie]
GenerateTrieProof(trie, key) == [proof_nodes |-> {e \in trie : e.key # key}]
VerifyTrieProof(root, proof, key, value) ==
    /\ \A e \in proof.proof_nodes : e.key # key
    /\ TrieRoot(proof.proof_nodes \cup {[key |-> key, value |-> value]}) = root

(***************************************************************************)
(* Keys and signatures (beefy_primitives::crypto).                         *)
(***************************************************************************)
\* lib.rs generate_beefy_pairs: the pairs (Pair, AuthorityId) of the keys in `ids`.
KeyPair(k) == <<[secret |-> k], [public |-> k]>>
generate_beefy_pairs(first, number) == [i \in 1..number |-> KeyPair(first + i - 1)]
Sign(pair, message) == [signer |-> pair.secret, message |-> message]
\* A check of the message alone, whoever signed.
SigVerifyAnySigner(authority, message, signature) == signature.message = message
SigVerify(authority, message, signature) ==
    signature.signer = authority.public /\ signature.message = message
PairsOf(authority_set) == [i \in 1..Len(authority_set) |-> authority_set[i][1]]
IdsOf(authority_set) == [i \in 1..Len(authority_set) |-> authority_set[i][2]]

(***************************************************************************)
(* The commitment scheme (block_generation.rs).                            *)
(***************************************************************************)
CommitmentPayload(mmr_node, changed_authority_ids, new_validator_set_id) ==
    [mmr_node |-> mmr_node, changed_authority_ids |-> changed_authority_ids,
     new_validator_set_id |-> new_validator_set_id]

\* A generator that leaves the last slot empty.
generate_signed_commitment_less_one(set_id, block_number, payload, validator_pairs) ==
    LET commitment == [payload |-> payload, block_number |-> block_number,
                       validator_set_id |-> set_id]
    IN  [commitment |-> commitment,
         signatures |-> [i \in 1..Len(validator_pairs) |->
                            IF i = Len(validator_pairs) THEN None
                            ELSE Some(Sign(validator_pairs[i], Encode(commitment)))]]
\* Every pair signs the encoded commitment, in input order.
generate_signed_commitment(set_id, block_number, payload, validator_pairs) ==
    LET commitment == [payload |-> payload, block_number |-> block_number,
                       validator_set_id |-> set_id]
    IN  [commitment |-> commitment,
         signatures |-> [i \in 1..Len(validator_pairs) |->
                            Some(Sign(validator_pairs[i], Encode(commitment)))]]

ErrSignatureCount == "Number of signatures differ"
ErrNoSignature == "No signature at a position"
ErrSignatureInvalid == "Signature is invalid"
OkResult == "Ok"

\* The loop of verify_signed_commitment from position i on.
RECURSIVE VerifySignaturesFrom(_, _, _, _)
VerifySignaturesFrom(i, signatures, encoded_commitment, authorities) ==
    IF i > Len(signatures) THEN OkResult
    ELSE IF IsNone(signatures[i]) THEN ErrNoSignature
    ELSE IF ~SigVerify(authorities[i], encoded_commitment, Unwrap(signatures[i]))
         THEN ErrSignatureInvalid
    ELSE VerifySignaturesFrom(i + 1, signatures, encoded_commitment, authorities)

\* Variant: a commitment with fewer slots than there are authorities is
\* checked slot by slot all the same.
verify_signed_commitment_without_count(signed_commitment, initial_authorities) ==
    IF Len(signed_commitment.signatures) > Len(initial_authorities)
    THEN ErrSignatureCount
    ELSE VerifySignaturesFrom(1, signed_commitment.signatures,
                              Encode(signed_commitment.commitment), initial_authorities)

verify_signed_commitment(signed_commitment, initial_authorities) ==
    IF Len(signed_commitment.signatures) # Len(initial_authorities)
    THEN ErrSignatureCount
    ELSE VerifySignaturesFrom(1, signed_commitment.signatures,
                              Encode(signed_commitment.commitment), initial_authorities)

(***************************************************************************)
(* The snapshot generator (block_generation.rs).                           *)
(***************************************************************************)
Bytes(b) == [bytes |-> b]
\* generate_random_storage_and_proof: a trie of random pairs, one of them
\* chosen, and the proof of the chosen key.  The seed stands for the draw of
\* the random generator; two draws never give the same keys and values.
generate_random_storage_and_proof(seed) ==
    LET chosen_key == Bytes(<<seed, 0>>)
        chosen_value == Bytes(<<seed, 0, 0>>)
        trie == TrieInsertAll(EmptyTrie, << <<chosen_key, chosen_value>>,
                                            <<Bytes(<<seed, 1>>), Bytes(<<seed, 1, 0>>)>> >>)
    IN  [trie_root |-> TrieRoot(trie),
         chosen_kv_pair |-> <<chosen_key, chosen_value>>,
         chosen_kv_proof |-> GenerateTrieProof(trie, chosen_key)]

TestHeader(parent_hash, number, state_root) ==
    [parent_hash |-> parent_hash, number |-> number, state_root |-> state_root]

\* The genesis branch of create_random_child_block.
GenesisBlock(seed, new_authority_set) ==
    LET storage == generate_random_storage_and_proof(seed)
        genesis_para_header == TestHeader(DefaultHash, 1, storage.trie_root)
        encoded_para_heads ==
            << <<HeaderHash(genesis_para_header), Encode(genesis_para_header)>> >>
        trie == TrieInsertAll(EmptyTrie, encoded_para_heads)
    IN  [chosen_kv_pair |-> storage.chosen_kv_pair,
         chosen_kv_proof |-> storage.chosen_kv_proof,
         beefy_mmr_store |-> EmptyStore,
         beefy_mmr_leaves |-> 0,
         relay_header |-> TestHeader(DefaultHash, 1, DefaultHash),
         para_header |-> genesis_para_header,
         encoded_para_head_data |-> encoded_para_heads,
         para_header_merkle_proof |-> GenerateTrieProof(trie, HeaderHash(genesis_para_header)),
         signed_commitment |-> None,
         current_authority_set |-> Unwrap(new_authority_set),
         current_authority_set_id |-> 0,
         para_header_merkle_root |-> TrieRoot(trie)]

\* The child branch of create_random_child_block.
ChildBlock(previous_block_data, should_generate_commitment, new_authority_set, seed) ==
    LET storage == generate_random_storage_and_proof(seed)
        previous_relay_header_hash == HeaderHash(previous_block_data.relay_header)
        previous_relay_header_number == previous_block_data.relay_header.number
        new_para_header ==
            TestHeader(HeaderHash(previous_block_data.para_header),
                       previous_block_data.para_header.number + 1, storage.trie_root)
        encoded_para_heads ==
            Append(previous_block_data.encoded_para_head_data,
                   <<HeaderHash(new_para_header), Encode(new_para_header)>>)
        trie == TrieInsertAll(EmptyTrie, encoded_para_heads)
        previous_para_heads_merkle_root == TrieRoot(trie)
        mem_mmr ==
            MmrPush(previous_block_data.beefy_mmr_store,
                    mmr_size_from_number_of_leaves(previous_block_data.beefy_mmr_leaves),
                    MMRData(<<previous_relay_header_number, previous_relay_header_hash,
                              previous_para_heads_merkle_root>>))
        mmr_root == MmrGetRoot(mem_mmr.store, mem_mmr.mmr_size).value
        signed_commitment ==
            IF IsNone(new_authority_set)
            THEN generate_signed_commitment(
                     previous_block_data.current_authority_set_id,
                     previous_relay_header_number + 1,
                     CommitmentPayload(mmr_root, None,
                                       previous_block_data.current_authority_set_id),
                     PairsOf(previous_block_data.current_authority_set))
            ELSE generate_signed_commitment(
                     previous_block_data.current_authority_set_id,
                     previous_relay_header_number + 1,
                     CommitmentPayload(mmr_root, Some(IdsOf(Unwrap(new_authority_set))),
                                       previous_block_data.current_authority_set_id + 1),
                     PairsOf(previous_block_data.current_authority_set))
    IN  [chosen_kv_pair |-> storage.chosen_kv_pair,
         chosen_kv_proof |-> storage.chosen_kv_proof,
         beefy_mmr_store |-> mem_mmr.store,
         beefy_mmr_leaves |-> previous_block_data.beefy_mmr_leaves + 1,
         relay_header |-> TestHeader(previous_relay_header_hash,
                                     previous_relay_header_number + 1, DefaultHash),
         signed_commitment |->
             IF should_generate_commitment THEN Some(signed_commitment) ELSE None,
         current_authority_set_id |->
             IF IsNone(new_authority_set)
             THEN previous_block_data.current_authority_set_id
             ELSE previous_block_data.current_authority_set_id + 1,
         current_authority_set |->
             IF IsNone(new_authority_set)
             THEN previous_block_data.current_authority_set
             ELSE Unwrap(new_authority_set),
         para_header |-> new_para_header,
         encoded_para_head_data |-> encoded_para_heads,
         para_header_merkle_proof |-> GenerateTrieProof(trie, HeaderHash(new_para_header)),
         para_header_merkle_root |-> previous_para_heads_merkle_root]

\* BlockData::ethereum_view: the root of the snapshot's accumulator and the
\* fields the relayer sends.  get_root().unwrap() aborts on an empty
\* accumulator, so the result is the view or the abort.
ethereum_view(block_data) ==
    LET root == MmrGetRoot(block_data.beefy_mmr_store,
                           mmr_size_from_number_of_leaves(block_data.beefy_mmr_leaves))
    IN  IF ~root.ok THEN Err("panic")
        ELSE Ok([beefy_mmr_root |-> root.value,
                 beefy_mmr_leaves |-> block_data.beefy_mmr_leaves,
                 relay_header |-> block_data.relay_header,
                 signed_commitment |->
                     IF IsNone(block_data.signed_commitment) THEN None
                     ELSE Decode(Encode(block_data.signed_commitment)),
                 para_header |-> block_data.para_header,
                 para_header_merkle_proof |-> block_data.para_header_merkle_proof,
                 chosen_kv_proof |-> block_data.chosen_kv_proof,
                 chosen_kv_pair |-> block_data.chosen_kv_pair,
                 para_header_merkle_root |-> block_data.para_header_merkle_root])

(***************************************************************************)
(* The verifier (ethereum_actor.rs).  Its trust state is the record        *)
(* [current_authorities, current_set_id, last_finalized_block].            *)
(***************************************************************************)
ErrMissingCommitment == "Cannot ingest a block without signed commitment"
ErrSetId == "Invalid validator set id"
ErrSignature == "Invalid signature"
ErrBlockNumber == "Invalid block number"
ErrMmrRoot == "MMR root not matching to that of block"
ErrNotIngested == "Not ingested a block yet"
ErrNotBeforeFinalized == "Cannot verify claims for last finalized block or after that block"
ErrMmrProof == "Block does not seems to be finalized"
ErrParaInclusion == "Unable to verify inclusion of parachain block"
ErrStorageClaim == "Unable to verify the storage claim"
\* The call did not return: an unwrap() of an Err aborted it.
Panic == "panic"

\* EthereumActor::new.
NewActor(initial_authorities, set_id) ==
    [current_authorities |-> initial_authorities,
     current_set_id |-> set_id,
     last_finalized_block |-> None]

\* Variant: the block number is compared before the signatures are checked.
IngestResultNumberFirst(self, view) ==
    IF IsNone(view.signed_commitment) THEN ErrMissingCommitment
    ELSE LET signed_commitment == Unwrap(view.signed_commitment)
         IN  IF signed_commitment.commitment.validator_set_id # self.current_set_id
             THEN ErrSetId
             ELSE IF view.relay_header.number
                         # signed_commitment.commitment.block_number
             THEN ErrBlockNumber
             ELSE IF verify_signed_commitment(signed_commitment, self.current_authorities)
                         # OkResult
             THEN ErrSignature
             ELSE IF view.beefy_mmr_root
                         # signed_commitment.commitment.payload.mmr_node
             THEN ErrMmrRoot
             ELSE OkResult

\* Variant: the set id of the commitment is not compared.
IngestResultNoSetIdCheck(self, view) ==
    IF IsNone(view.signed_commitment) THEN ErrMissingCommitment
    ELSE LET signed_commitment == Unwrap(view.signed_commitment)
         IN  IF verify_signed_commitment(signed_commitment, self.current_authorities)
                         # OkResult
             THEN ErrSignature
             ELSE IF view.relay_header.number
                         # signed_commitment.commitment.block_number
             THEN ErrBlockNumber
             ELSE IF view.beefy_mmr_root
                         # signed_commitment.commitment.payload.mmr_node
             THEN ErrMmrRoot
             ELSE OkResult

\* The checks of ingest_new_header, in the order of the code: the result of
\* the call.
IngestResult(self, view) ==
    IF IsNone(view.signed_commitment) THEN ErrMissingCommitment
    ELSE LET signed_commitment == Unwrap(view.signed_commitment)
         IN  IF signed_commitment.commitment.validator_set_id # self.current_set_id
             THEN ErrSetId
             ELSE IF verify_signed_commitment(signed_commitment, self.current_authorities)
                         # OkResult
             THEN ErrSignature
             ELSE IF view.relay_header.number
                         # signed_commitment.commitment.block_number
             THEN ErrBlockNumber
             ELSE IF view.beefy_mmr_root
                         # signed_commitment.commitment.payload.mmr_node
             THEN ErrMmrRoot
             ELSE OkResult

\* Variant: the set id is taken from the payload whether or not the payload
\* changes the authorities.
IngestUpdateAlwaysSetsId(self, view) ==
    LET payload == Unwrap(view.signed_commitment).commitment.payload
        rotated == IsSome(payload.changed_authority_ids)
    IN  [current_authorities |->
             IF rotated THEN Unwrap(payload.changed_authority_ids)
             ELSE self.current_authorities,
         current_set_id |-> payload.new_validator_set_id,
         last_finalized_block |-> Some(view)]

\* The trust state after an ingest_new_header that passed every check.
IngestUpdate(self, view) ==
    LET payload == Unwrap(view.signed_commitment).commitment.payload
        rotated == IsSome(payload.changed_authority_ids)
    IN  [current_authorities |->
             IF rotated THEN Unwrap(payload.changed_authority_ids)
             ELSE self.current_authorities,
         current_set_id |->
             IF rotated THEN payload.new_validator_set_id ELSE self.current_set_id,
         last_finalized_block |-> Some(view)]

\* Variant: the view is stored before the checks are made.
ingest_new_header_storing_first(self, view) ==
    LET result == IngestResult(self, view)
    IN  [result |-> result,
         self |-> IF result = OkResult THEN IngestUpdate(self, view)
                  ELSE [self EXCEPT !.last_finalized_block = Some(view)]]

\* EthereumActor::ingest_new_header: the result and the trust state it leaves.
ingest_new_header(self, view) ==
    LET result == IngestResult(self, view)
    IN  [result |-> result,
         self |-> IF result = OkResult THEN IngestUpdate(self, view) ELSE self]

\* The arguments of verify_claim.
ClaimArgs(at_relay_block, beefy_mmr_proof_items, block_pos_in_mmr, para_block, para_block_inclusion_proof, para_block_merkle_root, claimed_kv, kv_proof) ==
    [at_relay_block |-> at_relay_block,
     beefy_mmr_proof_items |-> beefy_mmr_proof_items,
     block_pos_in_mmr |-> block_pos_in_mmr,
     para_block |-> para_block,
     para_block_inclusion_proof |-> para_block_inclusion_proof,
     para_block_merkle_root |-> para_block_merkle_root,
     claimed_kv |-> claimed_kv,
     kv_proof |-> kv_proof]

\* The accumulator layer of verify_claim: MerkleProof::verify of the leaf
\* (number, hash, para root) at the given position against the trusted root.
ClaimMmrVerify(finalized, a) ==
    MerkleProofVerify(mmr_size_from_number_of_leaves(finalized.beefy_mmr_leaves),
                      a.beefy_mmr_proof_items,
                      finalized.beefy_mmr_root,
                      a.block_pos_in_mmr,
                      MMRData(<<a.at_relay_block.number, HeaderHash(a.at_relay_block),
                                a.para_block_merkle_root>>))

\* The para header layer: the header's hash maps to its encoding in the trie
\* rooted at para_block_merkle_root.
ClaimParaVerify(a) ==
    VerifyTrieProof(a.para_block_merkle_root, a.para_block_inclusion_proof,
                    HeaderHash(a.para_block), Encode(a.para_block))

\* The storage layer: the claimed pair is in the trie rooted at the para
\* header's state_root.
ClaimStorageVerify(a) ==
    VerifyTrieProof(a.para_block.state_root, a.kv_proof, a.claimed_kv[1], a.claimed_kv[2])

\* Variant: a claim for the last finalized block itself passes the lag check.
ClaimResultLagInclusive(self, a) ==
    IF IsNone(self.last_finalized_block) THEN ErrNotIngested
    ELSE LET finalized == Unwrap(self.last_finalized_block)
         IN  IF finalized.relay_header.number < a.at_relay_block.number
             THEN ErrNotBeforeFinalized
             ELSE LET verified == ClaimMmrVerify(finalized, a)
                  IN  IF ~verified.ok THEN Panic
                      ELSE IF ~verified.value THEN ErrMmrProof
                      ELSE IF ~ClaimParaVerify(a) THEN ErrParaInclusion
                      ELSE IF ~ClaimStorageVerify(a) THEN ErrStorageClaim
                      ELSE OkResult

\* Variant: without a snapshot only the two trie layers are checked.
ClaimResultWithoutSnapshot(self, a) ==
    IF IsNone(self.last_finalized_block)
    THEN IF ~ClaimParaVerify(a) THEN ErrParaInclusion
         ELSE IF ~ClaimStorageVerify(a) THEN ErrStorageClaim
         ELSE OkResult
    ELSE LET finalized == Unwrap(self.last_finalized_block)
         IN  IF finalized.relay_header.number <= a.at_relay_block.number
             THEN ErrNotBeforeFinalized
             ELSE LET verified == ClaimMmrVerify(finalized, a)
                  IN  IF ~verified.ok THEN Panic
                      ELSE IF ~verified.value THEN ErrMmrProof
                      ELSE IF ~ClaimParaVerify(a) THEN ErrParaInclusion
                      ELSE IF ~ClaimStorageVerify(a) THEN ErrStorageClaim
                      ELSE OkResult

\* The layers of verify_claim, in the order of the code: the result of the
\* call, or the abort of the unwrap() on a proof the library rejects.
ClaimResult(self, a) ==
    IF IsNone(self.last_finalized_block) THEN ErrNotIngested
    ELSE LET finalized == Unwrap(self.last_finalized_block)
         IN  IF finalized.relay_header.number <= a.at_relay_block.number
             THEN ErrNotBeforeFinalized
             ELSE LET verified == ClaimMmrVerify(finalized, a)
                  IN  IF ~verified.ok THEN Panic
                      ELSE IF ~verified.value THEN ErrMmrProof
                      ELSE IF ~ClaimParaVerify(a) THEN ErrParaInclusion
                      ELSE IF ~ClaimStorageVerify(a) THEN ErrStorageClaim
                      ELSE OkResult

\* Variant: a call that fails forgets the snapshot.
verify_claim_forgetting(self, a) ==
    [result |-> ClaimResult(self, a),
     self |-> IF ClaimResult(self, a) = OkResult THEN self
              ELSE [self EXCEPT !.last_finalized_block = None]]

\* EthereumActor::verify_claim: the result and the trust state it leaves (it
\* takes &self, so the state it was called in).
verify_claim(self, a) ==
    [result |-> ClaimResult(self, a), self |-> self]

(***************************************************************************)
(* The authority sets of the demo (lib.rs), scaled down.                   *)
(***************************************************************************)
\* Members of the genesis authority set (5 in the demo).
NumInitialAuthorities == 2
\* Members of the authority set a rotation enacts (6 in the demo).
NumNextAuthorities == 3
InitialAuthorities == generate_beefy_pairs(1, NumInitialAuthorities)
NextAuthorities == generate_beefy_pairs(NumInitialAuthorities + 1, NumNextAuthorities)
AuthoritySets == {InitialAuthorities, NextAuthorities}

(***************************************************************************)
(* State.                                                                  *)
(***************************************************************************)
VARIABLES
    blocks,                 \* the chain of BlockData the generator has built
    current_authorities,    \* EthereumActor.current_authorities
    current_set_id,         \* EthereumActor.current_set_id
    last_finalized_block,   \* EthereumActor.last_finalized_block
    call,                   \* the last call: its name, arguments and result
    rotations               \* history: the first and the latest rotation accepted

vars == <<blocks, current_authorities, current_set_id, last_finalized_block, call, rotations>>
actor_vars == <<current_authorities, current_set_id, last_finalized_block>>

\* The verifier's trust state as one record.
Actor ==
    [current_authorities |-> current_authorities,
     current_set_id |-> current_set_id,
     last_finalized_block |-> last_finalized_block]

(***************************************************************************)
(* What an untrusted relayer can hand to ingest_new_header: the view of a  *)
(* generated block as the generator made it, or with a commitment made up  *)
(* for it and signed by one of the authority sets.                         *)
(***************************************************************************)
WithCommitment(view, maybe_signed_commitment) ==
    [view EXCEPT !.signed_commitment = maybe_signed_commitment]

\* A signed commitment with its signatures damaged: the last slot emptied,
\* or the first signature made over another message.
DamageSignatures(signed_commitment, damage) ==
    LET sigs == signed_commitment.signatures
        n == Len(sigs)
    IN  IF n = 0 \/ damage = "none" THEN signed_commitment
        ELSE IF damage = "missing"
        THEN [signed_commitment EXCEPT !.signatures = [sigs EXCEPT ![n] = None]]
        ELSE [signed_commitment EXCEPT !.signatures =
                 [sigs EXCEPT ![1] = Some([Unwrap(sigs[1]) EXCEPT !.message =
                     Encode([signed_commitment.commitment EXCEPT !.block_number = @ + 1])])]]
SignatureDamages == {"none", "missing", "invalid"}

SetIds == 0..MaxSetId

\* The rotation a made-up commitment declares: no change of authorities
\* beside the next set id, the next authorities with the next set id, the
\* initial authorities with set id 0, or the next authorities with the set
\* id after the next.
ForgedRotations == {"none", "next", "back", "skip"}
ForgedChange(vs, rotation) ==
    IF rotation = "none" THEN [changed |-> None, nvs |-> vs + 1]
    ELSE IF rotation = "next"
    THEN [changed |-> Some(IdsOf(NextAuthorities)), nvs |-> vs + 1]
    ELSE IF rotation = "back"
    THEN [changed |-> Some(IdsOf(InitialAuthorities)), nvs |-> 0]
    ELSE [changed |-> Some(IdsOf(NextAuthorities)), nvs |-> vs + 2]

\* The made-up commitment for `view` described by the record f.
Forged(view, f) ==
    DamageSignatures(
        generate_signed_commitment(
            f.vs, view.relay_header.number + f.bn,
            CommitmentPayload(IF f.root_ok THEN view.beefy_mmr_root ELSE MMRHash(DefaultHash),
                              f.changed, f.nvs),
            PairsOf(f.signers)),
        f.damage)

\* Forgeries that differ in what the checks read, and well-formed ones that
\* differ in the rotation they declare.
Forgeries ==
    {[vs |-> vs, bn |-> bn, root_ok |-> root_ok, signers |-> signers, damage |-> damage,
      changed |-> ForgedChange(vs, "none").changed,
      nvs |-> ForgedChange(vs, "none").nvs] :
        vs \in SetIds, bn \in {0, 1}, root_ok \in BOOLEAN, signers \in AuthoritySets,
        damage \in SignatureDamages}
    \cup
    {[vs |-> vs, bn |-> 0, root_ok |-> TRUE, signers |-> signers, damage |-> "none",
      changed |-> ForgedChange(vs, rotation).changed,
      nvs |-> ForgedChange(vs, rotation).nvs] :
        vs \in SetIds, signers \in AuthoritySets, rotation \in ForgedRotations}

(***************************************************************************)
(* What a caller can hand to verify_claim: the claim the demo builds for   *)
(* block i from the store of a later block s, or that claim with one or    *)
(* more of its parts replaced.                                             *)
(***************************************************************************)
\* lib.rs generate_mmr_proof_items: gen_proof(..).unwrap().
generate_mmr_proof_items(block_pos_in_mmr, mmr_size, store) ==
    MmrGenProof(store, mmr_size, block_pos_in_mmr)

\* lib.rs generate_para_header_inclusion_proof.
generate_para_header_inclusion_proof(para_header, encoded_para_head_data) ==
    GenerateTrieProof(TrieInsertAll(EmptyTrie, encoded_para_head_data), HeaderHash(para_header))

\* The claim of the demo for blocks[i], proved against the store of blocks[s].
DemoClaim(i, s) ==
    LET verifying_block_pos_in_mmr == LeafIndexToPos(i - 1)
    IN  ClaimArgs(blocks[i].relay_header,
                  generate_mmr_proof_items(
                      verifying_block_pos_in_mmr,
                      mmr_size_from_number_of_leaves(blocks[s].beefy_mmr_leaves),
                      blocks[s].beefy_mmr_store).value,
                  verifying_block_pos_in_mmr,
                  blocks[i].para_header,
                  generate_para_header_inclusion_proof(blocks[i].para_header,
                                                       blocks[i + 1].encoded_para_head_data),
                  blocks[i + 1].para_header_merkle_root,
                  blocks[i].chosen_kv_pair,
                  blocks[i].chosen_kv_proof)

MmrDamages == {"none", "short", "extra", "position"}
ParaDamages == {"none", "header", "proof"}
KvDamages == {"none", "value"}

\* The claim a with the parts named by the record d replaced.
Damaged(a, d) ==
    LET items == a.beefy_mmr_proof_items
        other == blocks[d.other]
    IN  [a EXCEPT
            !.at_relay_block = blocks[d.target].relay_header,
            !.beefy_mmr_proof_items =
                IF d.mmr = "short" /\ items # <<>> THEN SubSeq(items, 1, Len(items) - 1)
                ELSE IF d.mmr = "extra" THEN Append(items, MMRHash(DefaultHash))
                ELSE items,
            !.block_pos_in_mmr = IF d.mmr = "position" THEN @ + 1 ELSE @,
            !.para_block = IF d.para = "header" THEN other.para_header ELSE @,
            !.para_block_inclusion_proof =
                IF d.para = "proof"
                THEN generate_para_header_inclusion_proof(other.para_header,
                                                          other.encoded_para_head_data)
                ELSE @,
            !.claimed_kv = IF d.kv = "value" THEN <<@[1], Bytes(@[2].bytes \o <<1>>)>> ELSE @]

(***************************************************************************)
(* Actions.  A call leaves its name, arguments and result in `call` until  *)
(* the caller takes the result (Return); calls do not overlap.             *)
(***************************************************************************)
Idle == [op |-> "idle"]
NoRotations == [first |-> None, last |-> None]

Init ==
    /\ blocks = <<GenesisBlock(1, Some(InitialAuthorities))>>
    /\ current_authorities = NewActor(IdsOf(InitialAuthorities), 0).current_authorities
    /\ current_set_id = NewActor(IdsOf(InitialAuthorities), 0).current_set_id
    /\ last_finalized_block = NewActor(IdsOf(InitialAuthorities), 0).last_finalized_block
    /\ call = Idle
    /\ rotations = NoRotations

\* create_random_child_block(Some(blocks.last()), ..): the chain grows by one.
CreateChild ==
    /\ call = Idle
    /\ Len(blocks) < MaxBlocks
    /\ \E should_generate_commitment \in BOOLEAN,
          new_authority_set \in {None, Some(NextAuthorities)} :
        /\ ~(IsSome(new_authority_set) /\ ~should_generate_commitment)
        /\ IsSome(new_authority_set) =>
               blocks[Len(blocks)].current_authority_set_id < MaxSetId
        /\ blocks' = Append(blocks, ChildBlock(blocks[Len(blocks)], should_generate_commitment,
                                              new_authority_set, Len(blocks) + 1))
    /\ UNCHANGED <<actor_vars, call, rotations>>

\* The rotation an accepted view enacts, as the history records it.
RotationOf(view) ==
    LET payload == Unwrap(view.signed_commitment).commitment.payload
    IN  [old |-> current_set_id, new |-> payload.new_validator_set_id,
         size |-> Len(Unwrap(payload.changed_authority_ids))]

\* The step ingest_new_header(view) takes from the current trust state.
IngestStep(view) ==
    LET r == ingest_new_header(Actor, view)
        rotating == r.result = OkResult
                    /\ IsSome(Unwrap(view.signed_commitment).commitment.payload.changed_authority_ids)
    IN  /\ current_authorities' = r.self.current_authorities
        /\ current_set_id' = r.self.current_set_id
        /\ last_finalized_block' = r.self.last_finalized_block
        /\ call' = [op |-> "ingest_new_header", view |-> view, result |-> r.result]
        /\ rotations' =
               IF rotating
               THEN [first |-> IF IsNone(rotations.first) THEN Some(RotationOf(view))
                               ELSE rotations.first,
                     last |-> Some(RotationOf(view))]
               ELSE rotations
        /\ UNCHANGED blocks

\* ingest_new_header on the view of a generated block.
IngestRelayed ==
    /\ call = Idle
    /\ \E i \in 1..Len(blocks) :
        /\ ethereum_view(blocks[i]).ok
        /\ IngestStep(ethereum_view(blocks[i]).value)

\* ingest_new_header on the newest block's view with a made-up commitment.
IngestForged ==
    /\ call = Idle
    /\ ethereum_view(blocks[Len(blocks)]).ok
    /\ \E f \in Forgeries :
        /\ IsSome(f.changed) => f.nvs <= MaxSetId
        /\ LET view == ethereum_view(blocks[Len(blocks)]).value
           IN  IngestStep(WithCommitment(view, Some(Forged(view, f))))

\* verify_claim on a claim built from the generated blocks.
VerifyClaim ==
    /\ call = Idle
    /\ \E i \in 1..(Len(blocks) - 1) :
       \E s \in (i + 1)..Len(blocks), target \in 1..Len(blocks), other \in {i + 1},
          mmr \in MmrDamages, para \in ParaDamages, kv \in KvDamages :
           LET a == Damaged(DemoClaim(i, s), [target |-> target, other |-> other, mmr |-> mmr,
                                              para |-> para, kv |-> kv])
               r == verify_claim(Actor, a)
           IN  /\ current_authorities' = r.self.current_authorities
               /\ current_set_id' = r.self.current_set_id
               /\ last_finalized_block' = r.self.last_finalized_block
               /\ call' = [op |-> "verify_claim", args |-> a, result |-> r.result]
    /\ UNCHANGED <<blocks, rotations>>

\* verify_claim on the demo's claim for blocks[i] with the header-set root
\* of any block in the place of that of blocks[i + 1].
VerifyClaimRoot ==
    /\ call = Idle
    /\ \E i \in 1..(Len(blocks) - 1) :
       \E s \in (i + 1)..Len(blocks), j \in 1..Len(blocks) :
           LET a == [DemoClaim(i, s) EXCEPT
                        !.para_block_merkle_root = blocks[j].para_header_merkle_root]
               r == verify_claim(Actor, a)
           IN  /\ current_authorities' = r.self.current_authorities
               /\ current_set_id' = r.self.current_set_id
               /\ last_finalized_block' = r.self.last_finalized_block
               /\ call' = [op |-> "verify_claim", args |-> a, result |-> r.result]
    /\ UNCHANGED <<blocks, rotations>>

\* The caller takes the result of the last call.
Return ==
    /\ call # Idle
    /\ call' = Idle
    /\ UNCHANGED <<blocks, actor_vars, rotations>>

\* The generator, a relayer that also makes commitments up, and the
\* verifier's ingest_new_header.
Next == CreateChild \/ IngestRelayed \/ IngestForged \/ Return

Spec == Init /\ [][Next]_vars

\* The generator, a relayer of its blocks, and a caller of verify_claim.
NextClaim == CreateChild \/ IngestRelayed \/ VerifyClaim \/ VerifyClaimRoot \/ Return

SpecClaim == Init /\ [][NextClaim]_vars

(***************************************************************************)
(* verify_signed_commitment on its own: every way of filling the signature *)
(* slots of a commitment, checked against each authority list.             *)
(***************************************************************************)
\* A slot holds the signature of the key of its position, nothing, that
\* key's signature over another commitment, or the signature of the next
\* key of the set.
SlotFillings == {"signed", "empty", "altered", "stranger"}

SignedSlots(commitment, pairs, filling) ==
    [i \in 1..Len(pairs) |->
        IF filling[i] = "signed" THEN Some(Sign(pairs[i], Encode(commitment)))
        ELSE IF filling[i] = "empty" THEN None
        ELSE IF filling[i] = "altered"
        THEN Some(Sign(pairs[i], Encode([commitment EXCEPT !.block_number = @ + 1])))
        ELSE Some(Sign(pairs[(i % Len(pairs)) + 1], Encode(commitment)))]

VerifySignedCommitment ==
    /\ call = Idle
    /\ \E signers \in AuthoritySets, authorities \in AuthoritySets :
       \E filling \in [1..Len(signers) -> SlotFillings] :
           LET commitment ==
                   generate_signed_commitment(
                       0, 1, CommitmentPayload(MMRHash(DefaultHash), None, 0),
                       PairsOf(signers)).commitment
               signed_commitment ==
                   [commitment |-> commitment,
                    signatures |-> SignedSlots(commitment, PairsOf(signers), filling)]
           IN  call' = [op |-> "verify_signed_commitment",
                        signed_commitment |-> signed_commitment,
                        authorities |-> IdsOf(authorities),
                        result |-> verify_signed_commitment(signed_commitment,
                                                            IdsOf(authorities))]
    /\ UNCHANGED <<blocks, actor_vars, rotations>>

NextSig == VerifySignedCommitment \/ Return

SpecSig == Init /\ [][NextSig]_vars

(***************************************************************************)
(* Properties of ingest_new_header (under Spec).                           *)
(***************************************************************************)
\* The step is a call of ingest_new_header; the unprimed variables are the
\* state it was called in, call' holds its argument and result.
IngestReturns == call = Idle /\ call'.op = "ingest_new_header"

\* The commitment of an ingested view that carries one.
CommitmentOf(view) == Unwrap(view.signed_commitment).commitment

\* C1: an ingest_new_header that returns an error leaves current_authorities,
\* current_set_id and last_finalized_block as they were; one that returns Ok
\* has stored the view, and has either kept the authorities and the set id
\* or taken both from the payload.
C1_IngestAllOrNothing ==
    [][IngestReturns =>
        /\ call'.result # OkResult => actor_vars' = actor_vars
        /\ call'.result = OkResult =>
            /\ last_finalized_block' = Some(call'.view)
            /\ \/ /\ current_authorities' = current_authorities
                  /\ current_set_id' = current_set_id
               \/ /\ IsSome(CommitmentOf(call'.view).payload.changed_authority_ids)
                  /\ current_authorities' =
                         Unwrap(CommitmentOf(call'.view).payload.changed_authority_ids)
                  /\ current_set_id' = CommitmentOf(call'.view).payload.new_validator_set_id
      ]_vars

\* An ingest that failed at the last check, on a commitment that verifies,
\* after an earlier one had succeeded: the snapshot is still the earlier one.
C1_Witness ==
    /\ call.op = "ingest_new_header"
    /\ call.result = ErrMmrRoot
    /\ IsSome(last_finalized_block)
    /\ last_finalized_block # Some(call.view)

\* C2: ingest_new_header returns Ok exactly when the view carries a
\* commitment, its set id is the verifier's, its signatures verify against
\* the verifier's authorities, its block number is the header's and its root
\* is the view's; otherwise the error is that of the first condition, in
\* this order, that fails.
C2_IngestChecks ==
    [][IngestReturns =>
        LET view == call'.view
            signed_commitment == Unwrap(view.signed_commitment)
            carried == IsSome(view.signed_commitment)
            set_id_ok == signed_commitment.commitment.validator_set_id = current_set_id
            signed_ok == verify_signed_commitment(signed_commitment, current_authorities)
                             = OkResult
            number_ok == view.relay_header.number = signed_commitment.commitment.block_number
            root_ok == view.beefy_mmr_root = signed_commitment.commitment.payload.mmr_node
        IN  /\ call'.result = OkResult
                <=> (carried /\ set_id_ok /\ signed_ok /\ number_ok /\ root_ok)
            /\ ~carried => call'.result = ErrMissingCommitment
            /\ (carried /\ ~set_id_ok) => call'.result = ErrSetId
            /\ (carried /\ set_id_ok /\ ~signed_ok) => call'.result = ErrSignature
            /\ (carried /\ set_id_ok /\ signed_ok /\ ~number_ok)
                   => call'.result = ErrBlockNumber
            /\ (carried /\ set_id_ok /\ signed_ok /\ number_ok /\ ~root_ok)
                   => call'.result = ErrMmrRoot
      ]_vars

\* An ingest whose commitment fails the signature, block number and root
\* conditions at once, and is answered with the signature error.
C2_Witness ==
    /\ call.op = "ingest_new_header"
    /\ call.result = ErrSignature
    /\ IsSome(call.view.signed_commitment)
    /\ CommitmentOf(call.view).validator_set_id = current_set_id
    /\ call.view.relay_header.number # CommitmentOf(call.view).block_number
    /\ call.view.beefy_mmr_root # CommitmentOf(call.view).payload.mmr_node

\* C3: after an ingest_new_header that returned Ok, the authorities and the
\* set id are those of the payload if it changes the authorities and are
\* unchanged if it does not, whatever new_validator_set_id it carries; the
\* snapshot is the ingested view.
C3_IngestUpdate ==
    [][(IngestReturns /\ call'.result = OkResult) =>
        LET payload == CommitmentOf(call'.view).payload
        IN  /\ IsSome(payload.changed_authority_ids) =>
                /\ current_authorities' = Unwrap(payload.changed_authority_ids)
                /\ current_set_id' = payload.new_validator_set_id
            /\ IsNone(payload.changed_authority_ids) =>
                /\ current_authorities' = current_authorities
                /\ current_set_id' = current_set_id
            /\ last_finalized_block' = Some(call'.view)
      ]_vars

\* An accepted commitment that does not change the authorities and carries
\* a new_validator_set_id other than the verifier's set id.
C3_Witness ==
    /\ call.op = "ingest_new_header"
    /\ call.result = OkResult
    /\ IsNone(CommitmentOf(call.view).payload.changed_authority_ids)
    /\ CommitmentOf(call.view).payload.new_validator_set_id # current_set_id
    /\ last_finalized_block = Some(call.view)

\* What the rotation r (from r.old to r.old + 1, to r.size authorities)
\* demands of the ingest this step is: a commitment of set id r.old is
\* refused with the set id error and changes nothing, and an accepted
\* commitment has set id r.old + 1 and r.size signature slots.
RotationObserved(r) ==
    LET view == call'.view
    IN  /\ (IsSome(view.signed_commitment) /\ CommitmentOf(view).validator_set_id = r.old)
               => (call'.result = ErrSetId /\ actor_vars' = actor_vars)
        /\ call'.result = OkResult =>
               /\ CommitmentOf(view).validator_set_id = r.old + 1
               /\ Len(Unwrap(view.signed_commitment).signatures) = r.size

\* C4 as stated: once a rotation from old to old + 1 has been accepted, every
\* later ingest of a commitment of set id old fails with the set id error and
\* changes nothing, and every later accepted commitment has set id old + 1
\* and as many slots as the new list has members.
C4_RotationForEver ==
    [][(IngestReturns /\ IsSome(rotations.first)
            /\ Unwrap(rotations.first).new = Unwrap(rotations.first).old + 1)
        => RotationObserved(Unwrap(rotations.first))]_vars

\* C4 amended: the same, for the ingests between the rotation and the next
\* accepted commitment that changes the authorities (that one included).
C4_RotationUntilNext ==
    [][(IngestReturns /\ IsSome(rotations.last)
            /\ Unwrap(rotations.last).new = Unwrap(rotations.last).old + 1)
        => RotationObserved(Unwrap(rotations.last))]_vars

\* The replay of a rotating commitment of the old set id, after the rotation
\* it enacted, refused with the set id error.
C4_Witness ==
    /\ call.op = "ingest_new_header"
    /\ call.result = ErrSetId
    /\ IsSome(rotations.last)
    /\ Unwrap(rotations.last).new = Unwrap(rotations.last).old + 1
    /\ IsSome(call.view.signed_commitment)
    /\ CommitmentOf(call.view).validator_set_id = Unwrap(rotations.last).old
    /\ IsSome(CommitmentOf(call.view).payload.changed_authority_ids)
    /\ current_set_id = Unwrap(rotations.last).new

\* C10: across an ingest_new_header that returned Ok the set id stays or
\* grows by exactly 1, and the payload changes the authorities exactly when
\* the set id grows.
C10_SetIdSteps ==
    [][(IngestReturns /\ call'.result = OkResult) =>
        /\ current_set_id' \in {current_set_id, current_set_id + 1}
        /\ IsSome(CommitmentOf(call'.view).payload.changed_authority_ids)
               <=> current_set_id' = current_set_id + 1
      ]_vars

(***************************************************************************)
(* Properties of verify_claim (under SpecClaim).                           *)
(***************************************************************************)
\* The index in `blocks` of the block with this relay header: the genesis
\* block has number 1 and a child the number of its parent plus 1.
BlockIndex(relay_header) == relay_header.number

\* C5: verify_claim returns the error of the first of its five layers that
\* fails (snapshot present, target below the finalized block, accumulator
\* proof reproducing the trusted root, para header inclusion, storage
\* proof), and Ok when none fails.
C5_LayerOrder ==
    call.op = "verify_claim" =>
        LET a == call.args
            finalized == Unwrap(last_finalized_block)
            ingested == IsSome(last_finalized_block)
            before == a.at_relay_block.number < finalized.relay_header.number
            in_mmr == ClaimMmrVerify(finalized, a).ok /\ ClaimMmrVerify(finalized, a).value
        IN  call.result =
                IF ~ingested THEN ErrNotIngested
                ELSE IF ~before THEN ErrNotBeforeFinalized
                ELSE IF ~in_mmr THEN ErrMmrProof
                ELSE IF ~ClaimParaVerify(a) THEN ErrParaInclusion
                ELSE IF ~ClaimStorageVerify(a) THEN ErrStorageClaim
                ELSE OkResult

\* C6: with the snapshot of block k accepted, verify_claim for a target
\* numbered k or higher fails with the lag error whatever else is supplied,
\* and the demo's claim for block k - 1 proved from block k's store succeeds.
C6_Lag ==
    (call.op = "verify_claim" /\ IsSome(last_finalized_block)) =>
        LET finalized == Unwrap(last_finalized_block)
            k == BlockIndex(finalized.relay_header)
        IN  /\ call.args.at_relay_block.number >= finalized.relay_header.number
                => call.result = ErrNotBeforeFinalized
            /\ call.args = DemoClaim(k - 1, k) => call.result = OkResult

\* The demo's claim for the block before the finalized one, accepted, with
\* the finalized block not the first child of genesis.
C6_Witness ==
    /\ call.op = "verify_claim"
    /\ IsSome(last_finalized_block)
    /\ BlockIndex(Unwrap(last_finalized_block).relay_header) > 2
    /\ call.args = DemoClaim(BlockIndex(Unwrap(last_finalized_block).relay_header) - 1,
                             BlockIndex(Unwrap(last_finalized_block).relay_header))
    /\ call.result = OkResult

\* C7: while no ingest has succeeded the verifier has no snapshot and every
\* verify_claim answers "not ingested"; only a successful ingest sets the
\* snapshot, and a verifier that has one keeps having one.
C7_Lifecycle ==
    [][/\ (call'.op = "verify_claim" /\ IsNone(last_finalized_block))
              => call'.result = ErrNotIngested
       /\ (IsNone(last_finalized_block) /\ IsSome(last_finalized_block'))
              => (call'.op = "ingest_new_header" /\ call'.result = OkResult)
       /\ (IsNone(last_finalized_block) /\ call'.op = "ingest_new_header"
              /\ call'.result # OkResult) => IsNone(last_finalized_block')
       /\ IsSome(last_finalized_block) => IsSome(last_finalized_block')
      ]_vars

\* The demo's claim, undamaged, refused because nothing has been ingested.
C7_Witness ==
    /\ call.op = "verify_claim"
    /\ call.result = ErrNotIngested
    /\ IsNone(last_finalized_block)
    /\ \E i \in 1..(Len(blocks) - 1) : call.args = DemoClaim(i, i + 1)

\* C8: verify_claim leaves current_authorities, current_set_id and
\* last_finalized_block as they were, whatever it returns, and the same call
\* in the state it leaves gives the same result.
C8_ReadOnly ==
    [][(call = Idle /\ call'.op = "verify_claim") =>
        /\ actor_vars' = actor_vars
        /\ verify_claim(Actor', call'.args).result = call'.result
      ]_vars

\* A verify_claim that returned an error with a snapshot in place.
C8_Witness ==
    /\ call.op = "verify_claim"
    /\ call.result = ErrStorageClaim
    /\ IsSome(last_finalized_block)

(***************************************************************************)
(* Properties of verify_signed_commitment (under SpecSig).                 *)
(***************************************************************************)
\* Position i of the signed commitment holds a signature that verifies
\* under authority i.
SlotVerifies(signed_commitment, authorities, i) ==
    /\ IsSome(signed_commitment.signatures[i])
    /\ SigVerify(authorities[i], Encode(signed_commitment.commitment),
                 Unwrap(signed_commitment.signatures[i]))

\* C9: verify_signed_commitment returns Ok exactly when there are as many
\* slots as authorities and every slot verifies under the authority of its
\* position; a different number of slots gives the count error, and otherwise
\* the error is that of the lowest position that fails: "no signature" for an
\* empty slot, "invalid" for a signature that does not verify.
C9_Unanimity ==
    call.op = "verify_signed_commitment" =>
        LET signed_commitment == call.signed_commitment
            authorities == call.authorities
            slots == Len(signed_commitment.signatures)
            failing == {i \in 1..slots : ~SlotVerifies(signed_commitment, authorities, i)}
            lowest == CHOOSE i \in failing : \A j \in failing : i <= j
        IN  /\ call.result = OkResult <=> (slots = Len(authorities) /\ failing = {})
            /\ slots # Len(authorities) => call.result = ErrSignatureCount
            /\ (slots = Len(authorities) /\ failing # {}) =>
                   call.result = IF IsNone(signed_commitment.signatures[lowest])
                                 THEN ErrNoSignature ELSE ErrSignatureInvalid

\* As many slots as authorities, the first one good, then a signature that
\* does not verify before an empty slot: the error is "invalid".
C9_Witness ==
    /\ call.op = "verify_signed_commitment"
    /\ Len(call.signed_commitment.signatures) = Len(call.authorities)
    /\ call.result = ErrSignatureInvalid
    /\ SlotVerifies(call.signed_commitment, call.authorities, 1)
    /\ \E i, j \in 1..Len(call.authorities) :
        /\ i < j
        /\ IsSome(call.signed_commitment.signatures[i])
        /\ ~SlotVerifies(call.signed_commitment, call.authorities, i)
        /\ IsNone(call.signed_commitment.signatures[j])

(***************************************************************************)
(* Error kinds (C11 under Spec, C12 under SpecClaim).                      *)
(***************************************************************************)
\* What verify_signed_commitment answers for the commitment of `view`
\* against the verifier's authorities.
SchemeResult(view) ==
    verify_signed_commitment(Unwrap(view.signed_commitment), current_authorities)

\* C11: an ingest_new_header that fails in the commitment scheme reports the
\* scheme's error kind: a commitment for the same view that fails in the
\* scheme with another kind (count, missing, invalid) gets another error.
C11_SchemeErrorKinds ==
    (/\ call.op = "ingest_new_header"
     /\ IsSome(call.view.signed_commitment)
     /\ CommitmentOf(call.view).validator_set_id = current_set_id
     /\ SchemeResult(call.view) # OkResult)
    => \A f \in Forgeries :
           LET other == WithCommitment(call.view, Some(Forged(call.view, f)))
           IN  (/\ f.vs = current_set_id
                /\ SchemeResult(other) # OkResult
                /\ SchemeResult(other) # SchemeResult(call.view))
               => IngestResult(Actor, other) # call.result

\* C12: with a snapshot in place verify_claim returns a value whatever
\* accumulator proof it is given, and a proof that does not reproduce the
\* trusted root (the target being before the finalized block) returns the
\* accumulator error.
C12_ProofNeverAborts ==
    (call.op = "verify_claim" /\ IsSome(last_finalized_block)) =>
        LET finalized == Unwrap(last_finalized_block)
            verified == ClaimMmrVerify(finalized, call.args)
        IN  /\ call.result # Panic
            /\ (/\ call.args.at_relay_block.number < finalized.relay_header.number
                /\ ~(verified.ok /\ verified.value))
               => call.result = ErrMmrProof

(***************************************************************************)
(* The accumulator round trip (under SpecMmr): leaves are pushed as the    *)
(* generator pushes them, the proof of one leaf is produced as             *)
(* generate_mmr_proof_items produces it and verified as verify_claim       *)
(* verifies it, with one of the values replaced on the way.                *)
(***************************************************************************)
MaxLeaves == 7

\* A LeafData: (BlockNumber, HashOutput, HashOutput).
LeafContent(k) == <<k, BlakeTwo256(Encode(k)), TrieRoot(EmptyTrie)>>
LeafContents == {LeafContent(1), LeafContent(2)}

\* mmr.push(MMRNode::Data(leaf)) for every leaf in turn.
RECURSIVE PushLeaves(_, _, _)
PushLeaves(store, mmr_size, leaves) ==
    IF leaves = <<>> THEN [store |-> store, mmr_size |-> mmr_size]
    ELSE LET pushed == MmrPush(store, mmr_size, MMRData(Head(leaves)))
         IN  PushLeaves(pushed.store, pushed.mmr_size, Tail(leaves))

\* The nodes a node can be replaced by: any leaf, the digest of the node
\* itself as a Hash node, and a digest of nothing in the accumulator.
Replacements(node) ==
    ({MMRData(l) : l \in LeafContents}
        \cup {MMRHash(NodeHash(node)), MMRHash(DefaultHash)}) \ {node}

TamperKinds == {"none", "leaf", "content", "item"}

\* What is replaced: nothing, the claimed leaf, the leaf pushed at the
\* position, or proof item `at`; `was` is the honest value, `with` the other.
Tamperings(leaf, proof) ==
    {[kind |-> "none", at |-> 0, was |-> MMRData(leaf), with |-> MMRData(leaf)]}
    \cup {[kind |-> "leaf", at |-> 0, was |-> MMRData(leaf), with |-> r] :
            r \in Replacements(MMRData(leaf))}
    \cup {[kind |-> "content", at |-> 0, was |-> MMRData(leaf), with |-> MMRData(l)] :
            l \in LeafContents \ {leaf}}
    \cup UNION {{[kind |-> "item", at |-> j, was |-> proof[j], with |-> r] :
                    r \in Replacements(proof[j])} : j \in 1..Len(proof)}

\* MerkleProof::new(mmr_size, items).verify(root, vec![(pos, leaf)]) on the
\* proof of gen_proof(vec![pos]) and the root of get_root, after tampering t.
RoundTripResult(leaves, index, t) ==
    LET pushed_leaves == IF t.kind = "content"
                         THEN [leaves EXCEPT ![index + 1] = t.with.leaf] ELSE leaves
        mmr == PushLeaves(EmptyStore, 0, pushed_leaves)
        pos == LeafIndexToPos(index)
        proof == generate_mmr_proof_items(pos, mmr.mmr_size, mmr.store).value
        items == IF t.kind = "item" THEN [proof EXCEPT ![t.at] = t.with] ELSE proof
        claimed == IF t.kind = "leaf" THEN t.with ELSE MMRData(leaves[index + 1])
    IN  MerkleProofVerify(mmr.mmr_size, items, MmrGetRoot(mmr.store, mmr.mmr_size).value,
                          pos, claimed)

RoundTrip ==
    /\ call = Idle
    /\ \E n \in 1..MaxLeaves : \E leaves \in [1..n -> LeafContents] : \E index \in 0..(n - 1) :
           LET mmr == PushLeaves(EmptyStore, 0, leaves)
               proof == generate_mmr_proof_items(LeafIndexToPos(index), mmr.mmr_size,
                                                 mmr.store).value
           IN  \E t \in Tamperings(leaves[index + 1], proof) :
                   call' = [op |-> "round_trip", leaves |-> leaves, index |-> index,
                            tampering |-> t, result |-> RoundTripResult(leaves, index, t)]
    /\ UNCHANGED <<blocks, actor_vars, rotations>>

NextMmr == RoundTrip \/ Return

SpecMmr == Init /\ [][NextMmr]_vars

\* C13 as stated: the proof of a pushed leaf verifies (true) against the
\* root and size of its accumulator, and the verification returns false as
\* soon as the claimed leaf, the leaf pushed at the position or one proof
\* item is any other value.
C13_RoundTrip ==
    call.op = "round_trip" =>
        call.result = Ok(call.tampering.kind = "none")

\* C13, amended: the proof of a pushed leaf verifies (true); the
\* verification returns false when the claimed leaf, the leaf pushed at the
\* position or one proof item is replaced by a node of another digest, and
\* still returns true when, in an accumulator of two or more leaves, the
\* claimed leaf or a proof item is replaced by another node of the same
\* digest (Data(l) by Hash(l.hash())).
C13_RoundTripByDigest ==
    call.op = "round_trip" =>
        LET t == call.tampering
        IN  /\ t.kind = "none" => call.result = Ok(TRUE)
            /\ NodeHash(t.with) # NodeHash(t.was) => call.result = Ok(FALSE)
            /\ (t.kind # "none" /\ NodeHash(t.with) = NodeHash(t.was))
                   => call.result = Ok(Len(call.leaves) >= 2)

\* A proof item of a seven-leaf accumulator (three peaks, the right ones
\* bagged) was replaced by a node of another digest and the proof refused.
C13_Witness ==
    /\ call.op = "round_trip"
    /\ Len(call.leaves) = MaxLeaves
    /\ call.tampering.kind = "item"
    /\ call.tampering.at = 3
    /\ NodeHash(call.tampering.with) # NodeHash(call.tampering.was)
    /\ call.result = Ok(FALSE)

(***************************************************************************)
(* Properties of create_random_child_block (under SpecClaim): blocks[i]    *)
(* is the parent of blocks[i + 1].                                         *)
(***************************************************************************)
\* The leaves of a store, in the order of their positions.
LeavesOf(store) == SelectSeq(store, LAMBDA node : node.tag = "Data")

\* C14: the accumulator of a child is its parent's plus exactly one leaf:
\* the leaf count grows by one, every position of the parent's store holds
\* the same node in the child's store, the child's store has one leaf more,
\* and that leaf, at the position of leaf index parent.beefy_mmr_leaves,
\* carries the parent's relay number and relay header hash.
C14_OneLeafPerChild ==
    \A i \in 1..(Len(blocks) - 1) :
        LET parent == blocks[i]
            child == blocks[i + 1]
            new_pos == LeafIndexToPos(parent.beefy_mmr_leaves)
        IN  /\ child.beefy_mmr_leaves = parent.beefy_mmr_leaves + 1
            /\ \A pos \in 0..(Len(parent.beefy_mmr_store) - 1) :
                   /\ HasElem(child.beefy_mmr_store, pos)
                   /\ GetElem(child.beefy_mmr_store, pos) = GetElem(parent.beefy_mmr_store, pos)
            /\ Len(LeavesOf(child.beefy_mmr_store)) = Len(LeavesOf(parent.beefy_mmr_store)) + 1
            /\ ~HasElem(parent.beefy_mmr_store, new_pos)
            /\ HasElem(child.beefy_mmr_store, new_pos)
            /\ GetElem(child.beefy_mmr_store, new_pos).tag = "Data"
            /\ GetElem(child.beefy_mmr_store, new_pos).leaf[1] = parent.relay_header.number
            /\ GetElem(child.beefy_mmr_store, new_pos).leaf[2] = HeaderHash(parent.relay_header)

\* A child was made of a parent whose accumulator was not empty, and the
\* push completed a parent node.
C14_Witness ==
    /\ Len(blocks) >= 3
    /\ blocks[2].beefy_mmr_leaves = 1
    /\ blocks[3].beefy_mmr_leaves = 2
    /\ Len(blocks[3].beefy_mmr_store) = 3
    /\ GetElem(blocks[3].beefy_mmr_store, 2).tag = "Hash"

\* C15: the accumulator of every snapshot lags its head by one block: the
\* snapshot of relay block n counts n - 1 leaves and its store holds that
\* many (genesis: number 1, no leaf), the leaf of index i describes block
\* i + 1, no leaf describes block n or a later one, and the commitment made
\* at block n carries the root of that accumulator.
C15_AccumulatorLag ==
    /\ blocks[1].relay_header.number = 1
    /\ blocks[1].beefy_mmr_leaves = 0
    /\ \A b \in 1..Len(blocks) :
        LET snapshot == blocks[b]
            n == snapshot.relay_header.number
            leaves == LeavesOf(snapshot.beefy_mmr_store)
        IN  /\ snapshot.beefy_mmr_leaves = n - 1
            /\ Len(leaves) = n - 1
            /\ Len(snapshot.beefy_mmr_store) = mmr_size_from_number_of_leaves(n - 1)
            /\ \A k \in 1..Len(leaves) :
                   /\ leaves[k].leaf[1] = k
                   /\ leaves[k].leaf[1] < n
                   /\ leaves[k].leaf[2] = HeaderHash(blocks[k].relay_header)
                   /\ GetElem(snapshot.beefy_mmr_store, LeafIndexToPos(k - 1)) = leaves[k]
            /\ IsSome(snapshot.signed_commitment) =>
                   LET commitment == Unwrap(snapshot.signed_commitment).commitment
                   IN  /\ commitment.block_number = n
                       /\ commitment.payload.mmr_node
                              = MmrGetRoot(snapshot.beefy_mmr_store,
                                           mmr_size_from_number_of_leaves(n - 1)).value

\* The snapshot of relay block 3 carries a commitment over two leaves.
C15_Witness ==
    /\ Len(blocks) >= 3
    /\ blocks[3].relay_header.number = 3
    /\ IsSome(blocks[3].signed_commitment)
    /\ Len(LeavesOf(blocks[3].beefy_mmr_store)) = 2

(***************************************************************************)
(* The demo (under SpecDemo): beefy_light_client_demo step by step.  The   *)
(* chain is the demo's, with the number of plain children after the        *)
(* rotation left open up to the demo's own, and the random storage of the  *)
(* verified block and of its child drawn from two values.                  *)
(***************************************************************************)
NumDemoInitialAuthorities == 5
NumDemoNextAuthorities == 6
\* The demo's chain: genesis, ten children, the last block.
MaxDemoBlocks == 12
\* blocks[4] of the demo (the child made at i == 3) is blocks[5] here.
DemoRotationBlock == 5

DemoInitialAuthorities == generate_beefy_pairs(1, NumDemoInitialAuthorities)
DemoNextAuthorities ==
    generate_beefy_pairs(NumDemoInitialAuthorities + 1, NumDemoNextAuthorities)

DemoSeeds(n) ==
    IF n \in {DemoRotationBlock, DemoRotationBlock + 1} THEN {n, n + MaxDemoBlocks} ELSE {n}

\* The last block has been made: the commitment after the rotation's.
DemoChainComplete ==
    /\ Len(blocks) > DemoRotationBlock + 1
    /\ IsSome(blocks[Len(blocks)].signed_commitment)

DemoInit ==
    /\ blocks = <<GenesisBlock(1, Some(DemoInitialAuthorities))>>
    /\ current_authorities = NewActor(IdsOf(DemoInitialAuthorities), 0).current_authorities
    /\ current_set_id = NewActor(IdsOf(DemoInitialAuthorities), 0).current_set_id
    /\ last_finalized_block = NewActor(IdsOf(DemoInitialAuthorities), 0).last_finalized_block
    /\ call = Idle
    /\ rotations = NoRotations

\* The loop's children (the rotation at i == 3, plain otherwise) and the
\* last block, which carries a commitment and no rotation.
DemoCreateChild ==
    /\ call = Idle
    /\ ~DemoChainComplete
    /\ Len(blocks) < MaxDemoBlocks
    /\ \E seed \in DemoSeeds(Len(blocks) + 1), last \in BOOLEAN :
        /\ last => Len(blocks) > DemoRotationBlock
        /\ ~last => Len(blocks) < MaxDemoBlocks - 1
        /\ blocks' = Append(blocks,
               IF Len(blocks) + 1 = DemoRotationBlock
               THEN ChildBlock(blocks[Len(blocks)], TRUE, Some(DemoNextAuthorities), seed)
               ELSE ChildBlock(blocks[Len(blocks)], last, None, seed))
    /\ UNCHANGED <<actor_vars, call, rotations>>

\* ingest_new_header(blocks[4].ethereum_view()), then
\* ingest_new_header(ethereum_view_of_last_block).
DemoIngest ==
    /\ call = Idle
    /\ DemoChainComplete
    /\ \/ /\ IsNone(last_finalized_block)
          /\ IngestStep(ethereum_view(blocks[DemoRotationBlock]).value)
       \/ /\ IsSome(last_finalized_block)
          /\ Unwrap(last_finalized_block).relay_header = blocks[DemoRotationBlock].relay_header
          /\ IngestStep(ethereum_view(blocks[Len(blocks)]).value)

\* The demo's verify_claim, and the same claim aimed at the last block.
DemoVerifyClaim ==
    /\ call = Idle
    /\ DemoChainComplete
    /\ IsSome(last_finalized_block)
    /\ Unwrap(last_finalized_block).relay_header = blocks[Len(blocks)].relay_header
    /\ \E target \in {DemoRotationBlock, Len(blocks)} :
           LET a == Damaged(DemoClaim(DemoRotationBlock, Len(blocks)),
                            [target |-> target, other |-> DemoRotationBlock + 1,
                             mmr |-> "none", para |-> "none", kv |-> "none"])
               r == verify_claim(Actor, a)
           IN  /\ current_authorities' = r.self.current_authorities
               /\ current_set_id' = r.self.current_set_id
               /\ last_finalized_block' = r.self.last_finalized_block
               /\ call' = [op |-> "verify_claim", args |-> a, result |-> r.result]
    /\ UNCHANGED <<blocks, rotations>>

NextDemo == DemoCreateChild \/ DemoIngest \/ DemoVerifyClaim \/ Return

SpecDemo == DemoInit /\ [][NextDemo]_vars

\* Every slot holds the signature of the set's member of that slot.
SignedBy(signed_commitment, authority_set) ==
    /\ Len(signed_commitment.signatures) = Len(authority_set)
    /\ \A i \in 1..Len(authority_set) :
           /\ IsSome(signed_commitment.signatures[i])
           /\ SigVerify(IdsOf(authority_set)[i], Encode(signed_commitment.commitment),
                        Unwrap(signed_commitment.signatures[i]))

\* C16: in the demo's chain the block of index 4 rotates the set from 5 to
\* 6 members under a commitment signed by the 5 old members, and the last
\* block's commitment is signed by the 6 new ones; the verifier made of the
\* 5 initial authorities and set id 0 accepts the view of the block of
\* index 4 and then the view of the last block; the claim for the block of
\* index 4 (leaf index 4, its para header, the header-set root of the block
\* of index 5, its key/value pair and proof) then succeeds, and the same
\* claim aimed at the last block is refused as not before the finalized one.
C16_DemoScenario ==
    /\ Len(blocks) >= DemoRotationBlock =>
           LET rotation == Unwrap(blocks[DemoRotationBlock].signed_commitment)
           IN  /\ \A i \in 1..(DemoRotationBlock - 1) : IsNone(blocks[i].signed_commitment)
               /\ SignedBy(rotation, DemoInitialAuthorities)
               /\ Len(rotation.signatures) = 5
               /\ rotation.commitment.payload.changed_authority_ids
                      = Some(IdsOf(DemoNextAuthorities))
               /\ Len(blocks[DemoRotationBlock].current_authority_set) = 6
    /\ DemoChainComplete =>
           /\ SignedBy(Unwrap(blocks[Len(blocks)].signed_commitment), DemoNextAuthorities)
           /\ Len(Unwrap(blocks[Len(blocks)].signed_commitment).signatures) = 6
    /\ call.op = "ingest_new_header" =>
           /\ call.result = OkResult
           /\ last_finalized_block = Some(call.view)
           /\ current_authorities = IdsOf(DemoNextAuthorities)
           /\ current_set_id = 1
    /\ call.op = "verify_claim" =>
           /\ call.args.block_pos_in_mmr = LeafIndexToPos(4)
           /\ call.args.para_block_merkle_root
                  = blocks[DemoRotationBlock + 1].para_header_merkle_root
           /\ call.result = IF call.args.at_relay_block = blocks[DemoRotationBlock].relay_header
                            THEN OkResult ELSE ErrNotBeforeFinalized

\* The demo as the source runs it: twelve blocks, both views ingested, the
\* claim for the block of index 4 accepted.
C16_Witness ==
    /\ Len(blocks) = MaxDemoBlocks
    /\ IsSome(last_finalized_block)
    /\ Unwrap(last_finalized_block).relay_header = blocks[MaxDemoBlocks].relay_header
    /\ call.op = "verify_claim"
    /\ call.args.at_relay_block = blocks[DemoRotationBlock].relay_header
    /\ call.result = OkResult

(***************************************************************************)
(* Concurrent callers (under SpecConc).  ingest_new_header takes           *)
(* `&mut self` and verify_claim `&self`: a caller can run verify_claim     *)
(* only while no ingest_new_header holds the verifier.  The update of      *)
(* ingest_new_header is taken one assignment at a time, in the order of    *)
(* the code; `call` holds the ingest on its way.                           *)
(***************************************************************************)
\* An ingest_new_header has passed its checks and not yet returned.
Writing == call.op = "ingesting"

\* A shared borrow that does not wait for the exclusive one.
SharedBorrowUnchecked(writing) == TRUE
\* `&self` can be taken when no `&mut self` is held.
SharedBorrow(writing) == ~writing

\* ingest_new_header up to its last check: an error returns at once.
ConcIngestBegin ==
    /\ ~Writing
    /\ \E i \in 1..Len(blocks) :
        /\ ethereum_view(blocks[i]).ok
        /\ LET view == ethereum_view(blocks[i]).value
               result == IngestResult(Actor, view)
           IN  call' = IF result # OkResult
                       THEN [op |-> "ingest_new_header", view |-> view, result |-> result]
                       ELSE [op |-> "ingesting", view |-> view,
                             at |-> IF IsSome(CommitmentOf(view).payload.changed_authority_ids)
                                    THEN "current_authorities" ELSE "last_finalized_block"]
    /\ UNCHANGED <<blocks, actor_vars, rotations>>

\* The next assignment of the ingest on its way; the last one returns Ok.
ConcIngestStep ==
    /\ Writing
    /\ LET payload == CommitmentOf(call.view).payload
       IN  \/ /\ call.at = "current_authorities"
              /\ current_authorities' = Unwrap(payload.changed_authority_ids)
              /\ call' = [call EXCEPT !.at = "current_set_id"]
              /\ UNCHANGED <<current_set_id, last_finalized_block>>
           \/ /\ call.at = "current_set_id"
              /\ current_set_id' = payload.new_validator_set_id
              /\ call' = [call EXCEPT !.at = "last_finalized_block"]
              /\ UNCHANGED <<current_authorities, last_finalized_block>>
           \/ /\ call.at = "last_finalized_block"
              /\ last_finalized_block' = Some(call.view)
              /\ call' = [op |-> "ingest_new_header", view |-> call.view, result |-> OkResult]
              /\ UNCHANGED <<current_authorities, current_set_id>>
    /\ UNCHANGED <<blocks, rotations>>

\* verify_claim by a caller that could borrow the verifier.
ConcVerifyClaim ==
    /\ SharedBorrow(Writing)
    /\ Len(blocks) > 1
    /\ \E i \in 1..(Len(blocks) - 1) :
           call' = [op |-> "verify_claim", args |-> DemoClaim(i, Len(blocks)),
                    result |-> verify_claim(Actor, DemoClaim(i, Len(blocks))).result]
    /\ UNCHANGED <<blocks, actor_vars, rotations>>

NextConc ==
    CreateChild \/ ConcIngestBegin \/ ConcIngestStep \/ ConcVerifyClaim \/ (~Writing /\ Return)

SpecConc == Init /\ [][NextConc]_vars

\* The three fields tell of the same ingests: none, or the stored snapshot
\* is the view of a block whose set id and authority keys are the current
\* ones.
TrustStateWhole ==
    IF IsNone(last_finalized_block)
    THEN Actor = NewActor(IdsOf(InitialAuthorities), 0)
    ELSE \E i \in 1..Len(blocks) :
            /\ ethereum_view(blocks[i]) = Ok(Unwrap(last_finalized_block))
            /\ current_set_id = blocks[i].current_authority_set_id
            /\ current_authorities = IdsOf(blocks[i].current_authority_set)

\* C17: a verify_claim that runs beside ingest_new_header calls never sees
\* a half-updated trust state: in the state it reads, current_set_id,
\* current_authorities and last_finalized_block tell of the same completed
\* ingests (not the new set id with the old snapshot, nor the old set id
\* with the new snapshot).
C17_NoHalfUpdate ==
    call.op = "verify_claim" => TrustStateWhole

\* A claim was verified after a rotation had been ingested in three steps.
C17_Witness ==
    /\ call.op = "verify_claim"
    /\ current_set_id = 1
    /\ IsSome(last_finalized_block)
    /\ IsSome(CommitmentOf(Unwrap(last_finalized_block)).payload.changed_authority_ids)
    /\ call.result = OkResult

(***************************************************************************)
(* The order of accepted snapshots (under Spec).                           *)
(***************************************************************************)
\* C18: the relay block number of the stored snapshot never decreases: an
\* ingest_new_header of a view whose block number is lower than the stored
\* snapshot's returns an error, and no step lowers the number.
C18_SnapshotNumberMonotone ==
    [][(IsSome(last_finalized_block) /\ IsSome(last_finalized_block')) =>
          /\ Unwrap(last_finalized_block').relay_header.number
                 >= Unwrap(last_finalized_block).relay_header.number
          /\ (/\ IngestReturns
              /\ call'.view.relay_header.number
                     < Unwrap(last_finalized_block).relay_header.number)
                 => call'.result # OkResult]_vars

(***************************************************************************)
(* Sibling chains (under SpecFork): create_random_child_block is given any *)
(* block made so far as the parent, so `blocks` holds the blocks of every  *)
(* chain in the order they were made; a block's parent is the block whose  *)
(* para header its para header names.                                      *)
(***************************************************************************)
MaxForkBlocks == 4

\* A second set a rotation can enact: as many members as NextAuthorities,
\* other keys.
OtherAuthorities ==
    generate_beefy_pairs(NumInitialAuthorities + NumNextAuthorities + 1, NumNextAuthorities)

\* A store handed on without a copy: the parent holds what was pushed.
StoreAliased(store, pushed) == pushed
\* previous_block_data.beefy_mmr_store.clone(): the push writes to the copy,
\* and the store the parent holds stays as it was.
StoreAfterClone(store, pushed) == store

\* create_random_child_block(Some(&blocks[parent]), ..) for any parent; the
\* parent is left holding its store as the generator's use of it leaves it.
ForkCreateChild ==
    /\ call = Idle
    /\ Len(blocks) < MaxForkBlocks
    /\ \E parent \in 1..Len(blocks), should_generate_commitment \in BOOLEAN,
          new_authority_set \in {None, Some(NextAuthorities), Some(OtherAuthorities)} :
        /\ ~(IsSome(new_authority_set) /\ ~should_generate_commitment)
        /\ IsSome(new_authority_set) => blocks[parent].current_authority_set_id < MaxSetId
        /\ LET child == ChildBlock(blocks[parent], should_generate_commitment,
                                   new_authority_set, Len(blocks) + 1)
           IN  blocks' = Append([blocks EXCEPT ![parent].beefy_mmr_store =
                                    StoreAfterClone(@, child.beefy_mmr_store)],
                                child)
    /\ UNCHANGED <<actor_vars, call, rotations>>

NextFork == ForkCreateChild \/ IngestRelayed \/ Return

SpecFork == Init /\ [][NextFork]_vars

\* C19: after every step the stored snapshot, if any, is the view of a
\* generated block whose current_authority_set_id is the verifier's
\* current_set_id and whose authority public keys, in order, are the
\* verifier's current_authorities; and ingest_new_header accepts the view of
\* a block only if the set that signs it (its parent's) is the verifier's,
\* so a block after a rotation the verifier has not ingested is rejected.
C19_TrustFollowsChain ==
    [][/\ IsSome(last_finalized_block') =>
              \E i \in 1..Len(blocks') :
                  /\ ethereum_view(blocks'[i]) = Ok(Unwrap(last_finalized_block'))
                  /\ current_set_id' = blocks'[i].current_authority_set_id
                  /\ current_authorities' = IdsOf(blocks'[i].current_authority_set)
       /\ (IngestReturns /\ call'.result = OkResult) =>
              \A i, p \in 1..Len(blocks) :
                  (/\ ethereum_view(blocks[i]) = Ok(call'.view)
                   /\ blocks[i].para_header.parent_hash = HeaderHash(blocks[p].para_header))
                  => /\ blocks[p].current_authority_set_id = current_set_id
                     /\ IdsOf(blocks[p].current_authority_set) = current_authorities]_vars

\* The verifier followed the rotation of one chain, and the view of a block
\* signed by the set a sibling's rotation enacted, with the same set id, was
\* rejected.
C19_Witness ==
    /\ call.op = "ingest_new_header"
    /\ call.result = ErrSignature
    /\ current_set_id = 1
    /\ current_authorities = IdsOf(NextAuthorities)
    /\ CommitmentOf(call.view).validator_set_id = 1
    /\ \E i \in 1..Len(blocks) :
           /\ ethereum_view(blocks[i]) = Ok(call.view)
           /\ blocks[i].current_authority_set = OtherAuthorities

(***************************************************************************)
(* The header-set root a leaf commits to (under SpecClaim).                *)
(***************************************************************************)
\* C20: the leaf of relay block k, in every accumulator that holds it,
\* carries the root over the para headers of blocks 1..k+1, which is the
\* para_header_merkle_root of block k+1 and differs from block k's; a claim
\* for block k passes the accumulator layer only with block k+1's root, and
\* with block k's own root it fails there.
C20_LeafCommitsToChildRoot ==
    /\ \A k \in 1..(Len(blocks) - 1) : \A s \in (k + 1)..Len(blocks) :
           LET leaf == LeavesOf(blocks[s].beefy_mmr_store)[k].leaf
               heads == blocks[k + 1].encoded_para_head_data
           IN  /\ leaf[1] = blocks[k].relay_header.number
               /\ leaf[3] = blocks[k + 1].para_header_merkle_root
               /\ leaf[3] = TrieRoot(TrieInsertAll(EmptyTrie, heads))
               /\ [h \in 1..Len(heads) |-> heads[h][1]]
                      = [h \in 1..(k + 1) |-> HeaderHash(blocks[h].para_header)]
               /\ leaf[3] # blocks[k].para_header_merkle_root
    /\ (/\ call.op = "verify_claim"
        /\ IsSome(last_finalized_block)
        /\ call.args.at_relay_block.number
               < Unwrap(last_finalized_block).relay_header.number) =>
           LET a == call.args
               k == a.at_relay_block.number
               verified == ClaimMmrVerify(Unwrap(last_finalized_block), a)
               passes == verified.ok /\ verified.value
           IN  /\ passes => a.para_block_merkle_root = blocks[k + 1].para_header_merkle_root
               /\ passes <=> call.result \notin {ErrMmrProof, Panic}
               /\ a.para_block_merkle_root = blocks[k].para_header_merkle_root =>
                      /\ ~passes
                      /\ verified.ok => call.result = ErrMmrProof

\* The demo's claim for a block, with that block's own header-set root in
\* the place of its child's, was refused at the accumulator layer.
C20_Witness ==
    /\ call.op = "verify_claim"
    /\ call.result = ErrMmrProof
    /\ call.args.para_block_merkle_root
           = blocks[call.args.at_relay_block.number].para_header_merkle_root
    /\ call.args = [DemoClaim(call.args.at_relay_block.number, Len(blocks)) EXCEPT
                       !.para_block_merkle_root = call.args.para_block_merkle_root]

(***************************************************************************)
(* Roots and sizes of the generated snapshots (under SpecClaim).           *)
(***************************************************************************)
\* C21: BlockData::ethereum_view returns a view, with a root, for every
\* snapshot the generator produced, the genesis snapshot (no leaf) included;
\* it never aborts.
C21_ViewOfEverySnapshot ==
    \A i \in 1..Len(blocks) :
        /\ MmrGetRoot(blocks[i].beefy_mmr_store,
                      mmr_size_from_number_of_leaves(blocks[i].beefy_mmr_leaves)).ok
        /\ ethereum_view(blocks[i]).ok

(***************************************************************************)
(* Roots as nodes (under SpecRoot): the relayer hands over the view of a   *)
(* block with the root, the committed root or both replaced by the Hash    *)
(* node of the root's digest; the commitment is signed by the block's      *)
(* signers.                                                                *)
(***************************************************************************)
\* MMRNode::hash of a node, as a Hash node.
DigestNode(node) == MMRHash(NodeHash(node))

IngestDigestRoot ==
    /\ call = Idle
    /\ \E i \in 2..Len(blocks), view_digest \in BOOLEAN, commitment_digest \in BOOLEAN :
        /\ IsSome(blocks[i].signed_commitment)
        /\ LET view == ethereum_view(blocks[i]).value
               commitment == CommitmentOf(view)
               signed_commitment ==
                   generate_signed_commitment(
                       commitment.validator_set_id, commitment.block_number,
                       [commitment.payload EXCEPT
                           !.mmr_node = IF commitment_digest THEN DigestNode(@) ELSE @],
                       PairsOf(blocks[i - 1].current_authority_set))
           IN  IngestStep([view EXCEPT
                              !.beefy_mmr_root = IF view_digest THEN DigestNode(@) ELSE @,
                              !.signed_commitment = Some(signed_commitment)])

NextRoot == CreateChild \/ IngestDigestRoot \/ VerifyClaim \/ Return

SpecRoot == Init /\ [][NextRoot]_vars

\* C22: the root of a one-leaf accumulator is the pushed leaf itself, a
\* Data node, and the root of two or more leaves is a Hash node; roots are
\* compared as nodes: ingest_new_header refuses a one-leaf view whose
\* commitment carries the digest of the leaf where the view has the leaf (or
\* the reverse), with the root error when the set id and the signatures are
\* the verifier's, and under a stored one-leaf root that is the digest of
\* the leaf no claim passes the accumulator layer.
C22_RootIsNode ==
    /\ \A i \in 2..Len(blocks) :
           LET root == MmrGetRoot(blocks[i].beefy_mmr_store,
                                  mmr_size_from_number_of_leaves(blocks[i].beefy_mmr_leaves)).value
           IN  IF blocks[i].beefy_mmr_leaves = 1
               THEN root = MMRData(<<blocks[1].relay_header.number,
                                     HeaderHash(blocks[1].relay_header),
                                     blocks[2].para_header_merkle_root>>)
               ELSE root.tag = "Hash"
    /\ (/\ call.op = "ingest_new_header"
        /\ call.view.beefy_mmr_leaves = 1
        /\ call.view.beefy_mmr_root.tag # CommitmentOf(call.view).payload.mmr_node.tag)
           => /\ NodeHash(call.view.beefy_mmr_root)
                     = NodeHash(CommitmentOf(call.view).payload.mmr_node)
              /\ call.result # OkResult
              /\ (/\ CommitmentOf(call.view).validator_set_id = current_set_id
                  /\ SchemeResult(call.view) = OkResult)
                     => call.result = ErrMmrRoot
    /\ (/\ call.op = "verify_claim"
        /\ IsSome(last_finalized_block)
        /\ Unwrap(last_finalized_block).beefy_mmr_leaves = 1
        /\ Unwrap(last_finalized_block).beefy_mmr_root.tag = "Hash")
           => call.result \in {ErrNotBeforeFinalized, ErrMmrProof, Panic}

\* The verifier stored a one-leaf view whose root and committed root were
\* both the digest of the leaf, and the demo's claim for that leaf was
\* refused at the accumulator layer.
C22_Witness ==
    /\ call.op = "verify_claim"
    /\ IsSome(last_finalized_block)
    /\ Unwrap(last_finalized_block).beefy_mmr_leaves = 1
    /\ Unwrap(last_finalized_block).beefy_mmr_root.tag = "Hash"
    /\ call.args = DemoClaim(1, 2)
    /\ call.result = ErrMmrProof

(***************************************************************************)
(* The commitments of the generator (under SpecClaim).                     *)
(***************************************************************************)
\* C23: every signed commitment of a generated block holds one present
\* signature per member of the parent block's authority set, in that set's
\* order, under the parent's set id; a block that rotates carries a
\* commitment whose payload names the new members and the parent's set id
\* plus one, and the payload of any other commitment names no members and
\* the parent's set id.
C23_CommitmentShape ==
    /\ IsNone(blocks[1].signed_commitment)
    /\ \A i \in 2..Len(blocks) :
           LET parent == blocks[i - 1]
               rotating == blocks[i].current_authority_set_id # parent.current_authority_set_id
           IN  /\ rotating => IsSome(blocks[i].signed_commitment)
               /\ rotating =>
                      blocks[i].current_authority_set_id = parent.current_authority_set_id + 1
               /\ ~rotating => blocks[i].current_authority_set = parent.current_authority_set
               /\ IsSome(blocks[i].signed_commitment) =>
                      LET signed_commitment == Unwrap(blocks[i].signed_commitment)
                          commitment == signed_commitment.commitment
                      IN  /\ SignedBy(signed_commitment, parent.current_authority_set)
                          /\ commitment.validator_set_id = parent.current_authority_set_id
                          /\ commitment.payload.changed_authority_ids
                                 = IF rotating
                                   THEN Some(IdsOf(blocks[i].current_authority_set))
                                   ELSE None
                          /\ commitment.payload.new_validator_set_id
                                 = IF rotating THEN parent.current_authority_set_id + 1
                                   ELSE parent.current_authority_set_id

\* A rotating block signed by the initial set, and its child signed by the
\* set the rotation enacted.
C23_Witness ==
    /\ Len(blocks) >= 3
    /\ blocks[2].current_authority_set = NextAuthorities
    /\ Len(Unwrap(blocks[2].signed_commitment).signatures) = NumInitialAuthorities
    /\ IsSome(blocks[3].signed_commitment)
    /\ Len(Unwrap(blocks[3].signed_commitment).signatures) = NumNextAuthorities

\* The block whose para header the para header of blocks[i] names.
ParentOf(i) ==
    CHOOSE p \in 1..Len(blocks) :
        blocks[i].para_header.parent_hash = HeaderHash(blocks[p].para_header)

\* C24 (under SpecFork): deriving a child leaves every block made before,
\* the parent and its other children among them, as it was (store, leaf
\* count, headers, authority set, para header data), so the view and the
\* proofs built from them are the same as before; and every child holds its
\* parent's store plus one leaf, whatever other children were derived.
C24_DerivationLeavesParent ==
    [][/\ \A i \in 1..Len(blocks) :
              /\ blocks'[i] = blocks[i]
              /\ ethereum_view(blocks'[i]) = ethereum_view(blocks[i])
       /\ \A i \in 2..Len(blocks') :
              LET child == blocks'[i]
                  parent == CHOOSE b \in {blocks'[p] : p \in 1..Len(blocks')} :
                                child.para_header.parent_hash = HeaderHash(b.para_header)
              IN  /\ child.beefy_mmr_leaves = parent.beefy_mmr_leaves + 1
                  /\ SubSeq(child.beefy_mmr_store, 1, Len(parent.beefy_mmr_store))
                         = parent.beefy_mmr_store
                  /\ Len(LeavesOf(child.beefy_mmr_store)) = child.beefy_mmr_leaves
                  /\ Len(LeavesOf(parent.beefy_mmr_store)) = parent.beefy_mmr_leaves]_vars

\* Two children were derived from one parent that held a leaf, and their
\* stores differ.
C24_Witness ==
    /\ Len(blocks) = 4
    /\ ParentOf(3) = 2
    /\ ParentOf(4) = 2
    /\ blocks[2].beefy_mmr_leaves = 1
    /\ blocks[3].beefy_mmr_store # blocks[4].beefy_mmr_store

\* C25 (under SpecClaim): mmr_size_from_number_of_leaves(0) is 0; for every
\* n from 1 to MaxLeaves it is the number of positions an accumulator holds
\* after n pushes, 2n less the one-bits of n, and more than for n - 1; every
\* generated store has the size of its leaf count; and the size verify_claim
\* takes from the stored leaf count is the size of the store from which the
\* stored root was computed.
C25_SizeOfLeafCount ==
    /\ mmr_size_from_number_of_leaves(0) = 0
    /\ \A n \in 1..MaxLeaves :
           LET pushed == PushLeaves(EmptyStore, 0, [k \in 1..n |-> LeafContent(1)])
           IN  /\ mmr_size_from_number_of_leaves(n) = Len(pushed.store)
               /\ mmr_size_from_number_of_leaves(n) = pushed.mmr_size
               /\ mmr_size_from_number_of_leaves(n) = 2 * n - CountOnes(n)
               /\ mmr_size_from_number_of_leaves(n) > mmr_size_from_number_of_leaves(n - 1)
    /\ \A i \in 1..Len(blocks) :
           Len(blocks[i].beefy_mmr_store)
               = mmr_size_from_number_of_leaves(blocks[i].beefy_mmr_leaves)
    /\ (call.op = "verify_claim" /\ IsSome(last_finalized_block)) =>
           LET finalized == Unwrap(last_finalized_block)
               mmr_size == mmr_size_from_number_of_leaves(finalized.beefy_mmr_leaves)
           IN  \E i \in 1..Len(blocks) :
                   /\ ethereum_view(blocks[i]) = Ok(finalized)
                   /\ mmr_size = Len(blocks[i].beefy_mmr_store)
                   /\ finalized.beefy_mmr_root
                          = MmrGetRoot(blocks[i].beefy_mmr_store, mmr_size).value

\* A claim was accepted against a stored snapshot of two leaves (size 3).
C25_Witness ==
    /\ call.op = "verify_claim"
    /\ IsSome(last_finalized_block)
    /\ Unwrap(last_finalized_block).beefy_mmr_leaves = 2
    /\ mmr_size_from_number_of_leaves(Unwrap(last_finalized_block).beefy_mmr_leaves) = 3
    /\ call.result = OkResult

====
